---------------------------- MODULE Spec2Model ----------------------------
(* Flat-file record store tools: scripts/promote-task.py and             *)
(* scripts/archive-task.py.                                               *)
(*                                                                        *)
(* Text representation.  A Python str without "\n" (one line) is a        *)
(* sequence of tokens; a token is one character ("#", "-", " ", "[", "]", *)
(* "x", a digit) or a word no pattern of the code can match part of.      *)
(* A file's content is the sequence of its lines, i.e. content.split("\n")*)
(* (never empty: "".split("\n") = [""]), and "\n".join(lines) is the      *)
(* inverse.  A missing file is the value Absent.                          *)
EXTENDS Integers, Sequences, FiniteSets, TLC

--------------------------------------------------------------------------
(* Python str operations on token sequences *)

\* pat in s  (str.__contains__)
Contains(pat, s) ==
    \E i \in 1..(Len(s) - Len(pat) + 1) : SubSeq(s, i, i + Len(pat) - 1) = pat

\* s.startswith(pat)
StartsWith(s, pat) ==
    Len(pat) <= Len(s) /\ SubSeq(s, 1, Len(pat)) = pat

\* s.replace(old, new): every non-overlapping occurrence, left to right
RECURSIVE Replace(_, _, _)
Replace(s, old, new) ==
    IF Len(s) < Len(old) \/ Len(old) = 0 THEN s
    ELSE IF SubSeq(s, 1, Len(old)) = old
         THEN new \o Replace(SubSeq(s, Len(old) + 1, Len(s)), old, new)
         ELSE <<Head(s)>> \o Replace(Tail(s), old, new)

\* s.count(pat): non-overlapping occurrences
RECURSIVE Count(_, _)
Count(s, pat) ==
    IF Len(s) < Len(pat) \/ Len(pat) = 0 THEN 0
    ELSE IF SubSeq(s, 1, Len(pat)) = pat
         THEN 1 + Count(SubSeq(s, Len(pat) + 1, Len(s)), pat)
         ELSE Count(Tail(s), pat)

\* s.strip(): leading and trailing whitespace removed
RECURSIVE LStrip(_)
LStrip(s) == IF s # <<>> /\ Head(s) = " " THEN LStrip(Tail(s)) ELSE s

RECURSIVE RStrip(_)
RStrip(s) ==
    IF s # <<>> /\ s[Len(s)] = " " THEN RStrip(SubSeq(s, 1, Len(s) - 1)) ELSE s

Strip(s) == RStrip(LStrip(s))

\* a + b on file contents held as line sequences: the last line of a and
\* the first line of b become one line
ConcatContent(a, b) ==
    SubSeq(a, 1, Len(a) - 1) \o <<a[Len(a)] \o b[1]>> \o Tail(b)

\* "\n".join(lines).split("\n"): what a file written from lines reads back
\* as; the empty list is written as "" and read back as [""]
Written(lines) == IF lines = <<>> THEN << <<>> >> ELSE lines

\* the str "\n" as a content: two empty lines
NL == << <<>>, <<>> >>

\* "\n".join(lines) as one token sequence, "\n" a token of its own
\* (what re.search scans)
RECURSIVE Join(_)
Join(lines) ==
    IF lines = <<>> THEN <<>>
    ELSE IF Len(lines) = 1 THEN lines[1]
    ELSE lines[1] \o <<"\n">> \o Join(Tail(lines))

\* lines[a:b] of Python (0-based, half-open, clamped)
Slice(lines, a, b) ==
    LET lo == IF a < 0 THEN 0 ELSE a
        hi == IF b > Len(lines) THEN Len(lines) ELSE b
    IN  SubSeq(lines, lo + 1, hi)

Digits == {"0", "1", "2", "3", "4", "5", "6", "7", "8", "9"}

\* re.IGNORECASE on the tokens the patterns name
Lower(t) ==
    CASE t = "TASK" -> "task"
      [] t = "P" -> "p"
      [] t = "**Priority**:" -> "**priority**:"
      [] t = "**Status**:" -> "**status**:"
      [] t = "Acceptance Criteria" -> "acceptance criteria"
      [] OTHER -> t

--------------------------------------------------------------------------
(* Literals of the code *)

H2 == <<"#", "#">>
H3 == <<"#", "#", "#">>
H4 == <<"#", "#", "#", "#">>
DashBracket == <<"-", " ", "[">>
Unchecked == <<"-", " ", "[", " ", "]">>
Checked == <<"-", " ", "[", "x", "]">>
TaskDash == <<"TASK", "-">>
Rule == <<"-", "-", "-">>
ActiveTasks == <<"#", "#", " ", "Active Tasks">>
TaskFormatTemplate == <<"#", "#", " ", "Task Format Template">>

\* a path with no file: no content splits to the empty list
Absent == <<>>

Min(S) == CHOOSE m \in S : \A n \in S : m <= n

--------------------------------------------------------------------------
(* promote-task.py *)

NotFound == [found |-> FALSE, task_start |-> 0, task_lines |-> <<>>]

\* the while loop of find_task_in_file: the first j (1-based) after i that
\* ends the task, or Len(lines) + 1
PT_task_end(lines, i) ==
    LET stops == {j \in (i + 1)..Len(lines) :
                    \/ StartsWith(lines[j], H4)
                    \/ StartsWith(lines[j], H3)
                    \/ (StartsWith(lines[j], DashBracket)
                        /\ Contains(TaskDash, lines[j]))}
    IN  IF stops = {} THEN Len(lines) + 1 ELSE Min(stops)

\* find_task_in_file of promote-task.py: (i, task_lines) of the first line
\* holding task_id and "###"; task_start is Python's 0-based index
PT_find_task_in_file(lines, task_id) ==
    LET hits == {i \in 1..Len(lines) :
                    /\ Contains(task_id, lines[i])
                    /\ (Contains(H4, lines[i]) \/ Contains(H3, lines[i]))}
    IN  IF hits = {} THEN NotFound
        ELSE LET i == Min(hits)
             IN  [found |-> TRUE, task_start |-> i - 1,
                  task_lines |-> SubSeq(lines, i, PT_task_end(lines, i) - 1)]

\* re.search(r"\[TASK-\d+\]", content, re.IGNORECASE)
HasTaskIdField(c) ==
    \E i \in 1..Len(c) : \E n \in 1..Len(c) :
        /\ i + 3 + n <= Len(c)
        /\ c[i] = "["
        /\ Lower(c[i + 1]) = "task"
        /\ c[i + 2] = "-"
        /\ \A k \in (i + 3)..(i + 2 + n) : c[k] \in Digits
        /\ c[i + 3 + n] = "]"

\* re.search(r"\*\*Priority\*\*:\s*(P0|P1|P2|P3)", content, re.IGNORECASE)
HasPriorityField(c) ==
    \E i \in 1..Len(c) : \E j \in (i + 1)..Len(c) :
        /\ Lower(c[i]) = "**priority**:"
        /\ \A k \in (i + 1)..(j - 1) : c[k] \in {" ", "\n"}
        /\ j + 1 <= Len(c)
        /\ Lower(c[j]) = "p"
        /\ c[j + 1] \in {"0", "1", "2", "3"}

\* re.search(r"\*\*Status\*\*:", content, re.IGNORECASE)
HasStatusField(c) == \E i \in 1..Len(c) : Lower(c[i]) = "**status**:"

\* re.search(r"Acceptance Criteria", content, re.IGNORECASE)
HasAcceptanceCriteria(c) ==
    \E i \in 1..Len(c) : Lower(c[i]) = "acceptance criteria"

\* a validator that asks for the Task ID only (C5 does not hold of it)
validate_task_id_only(task_lines) ==
    LET content == Join(task_lines)
    IN  IF HasTaskIdField(content) THEN <<>> ELSE <<"Task ID">>

\* validate_task_format: the errors list, in the order the code appends
validate_task_format(task_lines) ==
    LET content == Join(task_lines)
    IN  (IF HasTaskIdField(content) THEN <<>> ELSE <<"Task ID">>)
        \o (IF HasPriorityField(content) THEN <<>> ELSE <<"Priority">>)
        \o (IF HasStatusField(content) THEN <<>> ELSE <<"Status">>)
        \o (IF HasAcceptanceCriteria(content) THEN <<>>
            ELSE <<"Acceptance Criteria">>)

\* a removal that writes the source back untouched (C6 does not hold of it)
remove_nothing(lines, task_start, task_lines) == lines

\* remove_task_from_file: new_lines, from the file as re-read
remove_task_from_file(lines, task_start, task_lines) ==
    Slice(lines, 0, task_start)
        \o Slice(lines, task_start + Len(task_lines), Len(lines))

\* add_task_to_file, the branch with "## Active Tasks" in content
PT_insert_pos(lines) ==
    LET heads == {i \in 1..Len(lines) : Strip(lines[i]) = ActiveTasks}
        first == IF heads = {} THEN Len(lines) ELSE Min(heads) - 1
        closers == {i \in (first + 1)..(Len(lines) - 1) :
                      \/ StartsWith(lines[i + 1], TaskFormatTemplate)
                      \/ StartsWith(lines[i + 1], Rule)}
    IN  IF closers = {} THEN first ELSE Min(closers)

\* add_task_to_file: new_content for the target as read (Absent: no file)
add_task_to_file(content, task_lines) ==
    IF content = Absent
    THEN ConcatContent(<<ActiveTasks, <<>>, <<>>>>, task_lines)
    ELSE IF \E i \in 1..Len(content) : Contains(ActiveTasks, content[i])
         THEN LET p == PT_insert_pos(content)
              IN  Slice(content, 0, p) \o << <<>> >> \o task_lines
                    \o << <<>> >> \o Slice(content, p, Len(content))
         ELSE ConcatContent(ConcatContent(content, << <<>>, <<>>, <<>> >>),
                            task_lines)

\* todo_content.count("TASK-")
PT_task_count(content) ==
    Count(Join(content), TaskDash)

--------------------------------------------------------------------------
(* archive-task.py *)

\* find_task_in_file of archive-task.py: the 0-based index of the first line
\* holding task_id and "- [" or "##" (the line itself is lines[i])
AT_find_task_in_file(lines, task_id) ==
    LET hits == {i \in 1..Len(lines) :
                    /\ Contains(task_id, lines[i])
                    /\ (Contains(DashBracket, lines[i]) \/ Contains(H2, lines[i]))}
    IN  IF hits = {} THEN NotFound
        ELSE [found |-> TRUE, task_start |-> Min(hits) - 1,
              task_lines |-> <<lines[Min(hits)]>>]

\* main, "Read full task content": the lines from task_start up to the next
\* "- [" line, or "##" line that is not the line right after the start
AT_main_task_lines(lines, task_start) ==
    LET stops == {i \in (task_start + 1)..(Len(lines) - 1) :
                    \/ StartsWith(lines[i + 1], DashBracket)
                    \/ (StartsWith(lines[i + 1], H2) /\ i > task_start + 1)}
        stop == IF stops = {} THEN Len(lines) ELSE Min(stops)
    IN  Slice(lines, task_start, stop)

\* mark_task_completed, the for loop from 1-based line i on: every line with
\* task_id and "- [" has "- [ ]" replaced, until one holds "- [x]" (break)
RECURSIVE AT_mark_loop(_, _, _, _)
AT_mark_loop(lines, task_id, i, updated) ==
    IF i > Len(lines) THEN [updated |-> updated, lines |-> lines]
    ELSE IF Contains(task_id, lines[i]) /\ Contains(DashBracket, lines[i])
         THEN IF Contains(Unchecked, lines[i])
              THEN AT_mark_loop(
                     [lines EXCEPT ![i] = Replace(lines[i], Unchecked, Checked)],
                     task_id, i + 1, TRUE)
              ELSE IF Contains(Checked, lines[i])
                   THEN [updated |-> TRUE, lines |-> lines]
                   ELSE AT_mark_loop(lines, task_id, i + 1, updated)
         ELSE AT_mark_loop(lines, task_id, i + 1, updated)

\* a marker that flips the checkbox either way (C10 does not hold of it)
mark_task_toggled(lines, task_id) ==
    [updated |-> \E i \in 1..Len(lines) :
                    Contains(task_id, lines[i]) /\ Contains(DashBracket, lines[i]),
     lines |-> [i \in 1..Len(lines) |->
                  IF Contains(task_id, lines[i]) /\ Contains(DashBracket, lines[i])
                  THEN IF Contains(Unchecked, lines[i])
                       THEN Replace(lines[i], Unchecked, Checked)
                       ELSE Replace(lines[i], Checked, Unchecked)
                  ELSE lines[i]]]

\* mark_task_completed: (updated, the lines it writes when updated)
mark_task_completed(lines, task_id) ==
    AT_mark_loop(lines, task_id, 1, FALSE)

\* promote_task, "Find task and extract content"
AT_promote_find(lines, task_id) ==
    LET hits == {i \in 1..Len(lines) :
                    /\ Contains(task_id, lines[i])
                    /\ (Contains(DashBracket, lines[i]) \/ Contains(H2, lines[i]))}
    IN  IF hits = {} THEN NotFound
        ELSE LET i == Min(hits)
                 stops == {j \in (i + 1)..Len(lines) :
                             \/ StartsWith(lines[j], DashBracket)
                             \/ StartsWith(lines[j], H2)}
                 j == IF stops = {} THEN Len(lines) + 1 ELSE Min(stops)
             IN  [found |-> TRUE, task_start |-> i - 1,
                  task_lines |-> SubSeq(lines, i, j - 1)]

\* promote_task, "Remove from source file": new_lines
AT_promote_remove(lines, task_start, task_lines) ==
    Slice(lines, 0, task_start)
        \o Slice(lines, task_start + Len(task_lines), Len(lines))

\* promote_task, "Add to target file": to_content += f"\n{task_content}\n"
AT_promote_add(to_content, task_lines) ==
    ConcatContent(to_content, ConcatContent(ConcatContent(NL, task_lines), NL))

\* the date of the run, as strftime("%Y-%m-%d") prints it
Today == "2026-01-24"

\* archive_task: f"\n## {task_id} - Archived {today}\n\n{task_content}\n\n---\n\n"
AT_archive_entry(task_id, task_content) ==
    LET header == <<"#", "#", " ">> \o task_id
                    \o <<" ", "-", " ", "Archived", " ", Today>>
    IN  ConcatContent(
          ConcatContent(<< <<>>, header, <<>>, <<>> >>, task_content),
          << <<>>, <<>>, Rule, <<>>, <<>> >>)

\* an archive_task that writes the new entry over the file (C32 does not
\* hold of it)
archive_task_overwriting(archive, task_id, task_content) ==
    AT_archive_entry(task_id, task_content)

\* archive_task: the content written to the dated archive file
archive_task(archive, task_id, task_content) ==
    IF archive = Absent THEN AT_archive_entry(task_id, task_content)
    ELSE ConcatContent(archive, AT_archive_entry(task_id, task_content))

--------------------------------------------------------------------------
(* Files and the documents the runs start from *)

F_BACKLOG == ".repo/tasks/BACKLOG.md"
F_TODO == ".repo/tasks/TODO.md"
F_P0 == "P0TODO.md"
F_P1 == "P1TODO.md"
F_P2 == "P2TODO.md"
F_P3 == "P3TODO.md"
F_ROOT_TODO == "TODO.md"
F_ARCHIVE == ".repo/archive/tasks/TODO_ARCHIVE_2026-01-24.md"

Files == {F_BACKLOG, F_TODO, F_P0, F_P1, F_P2, F_P3, F_ROOT_TODO, F_ARCHIVE}

\* main of archive-task.py: todo_files, in search order
todo_files == <<F_P0, F_P1, F_P2, F_P3, F_ROOT_TODO>>

\* promote_task: P{priority[-1]}TODO.md
PriorityFile(p) ==
    CASE p = "P0" -> F_P0 [] p = "P1" -> F_P1 [] p = "P2" -> F_P2
      [] p = "P3" -> F_P3

TASK1 == <<"TASK", "-", "1">>
TASK2 == <<"TASK", "-", "2">>
TaskIds == {TASK1, TASK2}

L_Backlog == <<"#", "#", " ", "Backlog">>
L_Icebox == <<"#", "#", " ", "Icebox">>
L_T1Head == <<"#", "#", "#", " ", "[", "TASK", "-", "1", "]", " ", "Alpha">>
L_T2HeadRef ==
    <<"#", "#", "#", " ", "[", "TASK", "-", "2", "]", " ", "Beta", " ",
      "after", " ", "TASK", "-", "1">>
L_Fields == <<"**Priority**:", " ", "P", "1", " ", "**Status**:", " ", "Open">>
L_FieldsLow == <<"**priority**:", " ", "p", "2", " ", "**Status**:", " ", "Open">>
L_PrioBad == <<"**Priority**:", " ", "P", "7">>
L_AC == <<"-", " ", "[", " ", "]", " ", "Acceptance Criteria", " ", "met">>
L_ACplain == <<"Acceptance Criteria">>
L_Check2 == <<"-", " ", "[", " ", "]", " ", "[", "TASK", "-", "2", "]", " ", "Beta">>
L_Title == <<"#", " ", "TODO">>
L_Queue ==
    <<"Queue:", " ", "TASK", "-", "3", " ", "TASK", "-", "4", " ", "TASK", "-",
      "5", " ", "TASK", "-", "6", " ", "TASK", "-", "7">>
L_TemplateBody == <<"Template", " ", "body">>
L_P0Title == <<"#", "#", " ", "P0">>
L_P3Title == <<"#", "#", " ", "P3">>
L_C1 == <<"-", " ", "[", " ", "]", " ", "TASK", "-", "1", " ", "fix">>
L_C1Done == <<"-", " ", "[", "x", "]", " ", "TASK", "-", "1", " ", "fix">>
L_Detail == <<" ", " ", "detail">>
L_C2Ref ==
    <<"-", " ", "[", " ", "]", " ", "TASK", "-", "2", " ", "after", " ",
      "TASK", "-", "1">>
L_C2Done == <<"-", " ", "[", "x", "]", " ", "TASK", "-", "2", " ", "done">>
L_SubRef ==
    <<" ", " ", "-", " ", "[", " ", "]", " ", "wait", " ", "for", " ",
      "TASK", "-", "1">>
L_C3 == <<"-", " ", "[", " ", "]", " ", "TASK", "-", "3", " ", "later">>
\* the record of TASK-10
L_C10 == <<"-", " ", "[", " ", "]", " ", "TASK", "-", "1", "0", " ", "big">>
\* prose: "see TASK-1 - [notes]"
L_Prose ==
    <<"see", " ", "TASK", "-", "1", " ", "-", " ", "[", "notes", "]">>

\* .repo/tasks/BACKLOG.md
BacklogDocs ==
    { Absent,
      \* a valid TASK-1, and TASK-2 as a checklist record
      <<L_Backlog, L_T1Head, L_Fields, L_AC, <<>>, L_Check2>>,
      \* a valid TASK-2 whose heading mentions TASK-1, a section heading,
      \* then TASK-1
      <<L_T2HeadRef, L_FieldsLow, L_ACplain, L_Icebox, L_T1Head, L_Fields,
        L_ACplain>>,
      \* TASK-1 without Status and Acceptance Criteria, priority out of range
      <<L_T1Head, L_PrioBad>> }

\* .repo/tasks/TODO.md
TodoDocs ==
    { Absent,
      <<ActiveTasks, <<>>, Rule, TaskFormatTemplate, L_TemplateBody>>,
      \* no "## Active Tasks" section, five TASK- tokens
      <<L_Title, L_Queue>> }

\* P0TODO.md
P0Docs ==
    { <<L_P0Title, L_C1, L_Detail, L_C2Ref, <<>>>>,
      <<L_C2Done, L_SubRef, L_C1Done>>,
      \* TASK-10 first, and two records of TASK-1
      <<L_C10, L_C1, L_Detail, L_C1>> }

\* P3TODO.md: TASK-3, followed by prose that mentions TASK-1
P3Docs == { Absent, <<L_P3Title, L_C3, L_Prose>> }

\* sequential runs per behaviour
MaxRuns == 2

--------------------------------------------------------------------------
(* State *)

VARIABLES
    fs,     \* path -> content (line sequence), Absent when there is no file
    args,   \* the running (or last) invocation: tool, flags, interpreter
    pc,     \* where the invocation stands; "idle" between invocations
    loc,    \* its locals: task_file, task_start, task_lines
    exit,   \* its exit code: "none" while running, "0", "1", "killed"
    out,    \* what it printed, one record per message
    pre,    \* fs when the invocation started
    prev,   \* what the invocation before it did, and fs before that one
    runs,   \* invocations started
    archive_dir  \* whether the directory .repo/archive/tasks exists

\* the state of create-hitl-item.py and manage-waivers.py
VARIABLES
    index,     \* content of .repo/policy/HITL.md (a text), NoFile without it
    hitl_dir,  \* .repo/hitl: the item files, as [name, content] records
    waivers,   \* .repo/waivers: [exists, files], files as [name, content]
    proc,      \* process -> its arguments, position and locals
    handed,    \* the identifiers allocated so far, in allocation order
    overlap    \* whether two invocations have run at the same time

\* the state of sync-hitl-to-pr.py, create-agent-log.py and of
\* manage-waivers.py check-expired and list
VARIABLES
    xrun,   \* the running (or last) invocation: tool, flags, position, results
    pr,     \* the pull request at the remote: its body
    logs    \* .repo/logs: the log files, as [name, data] records

\* two invocations of the task tools running at the same time
VARIABLES
    rproc   \* per process: tool, flags, position, locals, what it last read

tvars == <<fs, args, pc, loc, exit, out, pre, prev, runs, archive_dir>>
hvars == <<index, hitl_dir, waivers, proc, handed, overlap>>
xvars == <<xrun, pr, logs, rproc>>
vars == <<fs, args, pc, loc, exit, out, pre, prev, runs, archive_dir,
          index, hitl_dir, waivers, proc, handed, overlap, xrun, pr, logs,
          rproc>>

\* a text is a sequence of tokens, "\n" among them; no text holds "ENOENT"
NoFile == <<"ENOENT">>
Procs == {1, 2}
NoProc ==
    [pc |-> "idle", tool |-> "none", summary |-> <<>>, dry_run |-> FALSE,
     id |-> <<>>, seen |-> NoFile, exit |-> "none"]

\* no invocation of create-hitl-item.py or manage-waivers.py, no file of theirs
NoHitlNoWaivers ==
    /\ index = NoFile
    /\ hitl_dir = {}
    /\ waivers = [exists |-> FALSE, files |-> {}]
    /\ proc = [p \in Procs |-> NoProc]
    /\ handed = <<>>
    /\ overlap = FALSE

\* no invocation of the other tools, no pull request, no log
NoRunArgs ==
    [tool |-> "none", dry_run |-> FALSE, pr_number |-> TRUE, token |-> TRUE,
     requests |-> TRUE, repo |-> "given", mode |-> "none"]

NoRun ==
    [tool |-> "none", pc |-> "idle", exit |-> "none", a |-> NoRunArgs,
     out |-> <<>>, reported |-> {}, today |-> [year |-> 0, month |-> 0, day |-> 0],
     gets |-> 0, patches |-> 0, answers |-> <<>>, body |-> <<>>,
     section |-> <<>>, runs |-> 0]

\* seen: the content returned by the last read_text; stale: a write step
\* replaced a content that was not the one read
NoRacer ==
    [tool |-> "none", task_id |-> <<>>, todo_file |-> "", pc |-> "idle",
     task_file |-> "", task_start |-> 0, task_lines |-> <<>>, seen |-> <<>>,
     marked |-> FALSE, stale |-> FALSE, exit |-> "none"]

NoOtherRuns ==
    /\ xrun = NoRun
    /\ pr = NoFile
    /\ logs = {}
    /\ rproc = [p \in Procs |-> NoRacer]

NoArgs ==
    [tool |-> "none", task_id |-> <<>>, dry_run |-> FALSE,
     validate_only |-> FALSE, status |-> "completed", promote_from |-> "None",
     promote_to |-> "P0", lazy_annotations |-> TRUE]

NoLoc == [task_file |-> "", task_start |-> 0, task_lines |-> <<>>]

Msg(tag, info) == [tag |-> tag, info |-> info]

Printed(tag) == \E k \in 1..Len(out) : out[k].tag = tag

Exists(f) == fs[f] # Absent

Init ==
    /\ \E b \in BacklogDocs, t \in TodoDocs, p0 \in P0Docs, p3 \in P3Docs :
         fs = [f \in Files |->
                 CASE f = F_BACKLOG -> b
                   [] f = F_TODO -> t
                   [] f = F_P0 -> p0
                   [] f = F_P3 -> p3
                   [] OTHER -> Absent]
    /\ args = NoArgs
    /\ pc = "idle"
    /\ loc = NoLoc
    /\ exit = "none"
    /\ out = <<>>
    /\ pre = fs
    /\ prev = [op |-> "none", task_id |-> <<>>, src |-> "", dst |-> "", pre |-> fs]
    /\ runs = 0
    /\ archive_dir = FALSE
    /\ NoHitlNoWaivers
    /\ NoOtherRuns

\* what the invocation that just ended did, for the one that follows it
RunSummary ==
    IF exit = "0" /\ ~args.dry_run /\ (Printed("Promoted") \/ Printed("AddedTo"))
    THEN [op |-> "move", task_id |-> args.task_id,
          src |-> IF args.tool = "promote-task" THEN F_BACKLOG
                  ELSE PriorityFile(args.promote_from),
          dst |-> IF args.tool = "promote-task" THEN F_TODO
                  ELSE PriorityFile(args.promote_to),
          pre |-> pre]
    ELSE IF ~args.dry_run /\ Printed("Marked")
    THEN [op |-> "mark", task_id |-> args.task_id, src |-> loc.task_file,
          dst |-> "", pre |-> pre]
    ELSE [op |-> "none", task_id |-> <<>>, src |-> "", dst |-> "", pre |-> pre]

\* a process starts: argparse has the flags, nothing is read yet
Start(a) ==
    /\ pc \in {"idle", "done"}
    /\ runs < MaxRuns
    /\ args' = a
    /\ pc' = IF a.tool = "promote-task" THEN "pt_main" ELSE "at_main"
    /\ loc' = NoLoc
    /\ exit' = "none"
    /\ out' = <<>>
    /\ pre' = fs
    /\ prev' = RunSummary
    /\ runs' = runs + 1
    /\ UNCHANGED <<fs, hvars, xvars, archive_dir>>

\* sys.exit(code), or an uncaught exception (code 1)
Finish(code, msgs) ==
    /\ pc' = "done"
    /\ exit' = code
    /\ out' = out \o msgs

--------------------------------------------------------------------------
(* promote-task.py main *)

\* lazy_annotations: whether the interpreter defers the evaluation of
\* annotations (CPython 3.14 on) or evaluates them at the def statement;
\* the eager interpreter never reaches argparse, so its flags are left out
PromoteArgs ==
    { [tool |-> "promote-task", task_id |-> id, dry_run |-> d,
       validate_only |-> v, status |-> "completed", promote_from |-> "None",
       promote_to |-> "P0", lazy_annotations |-> TRUE] :
        id \in TaskIds, d \in BOOLEAN, v \in BOOLEAN }
    \cup
    { [tool |-> "promote-task", task_id |-> id, dry_run |-> FALSE,
       validate_only |-> FALSE, status |-> "completed", promote_from |-> "None",
       promote_to |-> "P0", lazy_annotations |-> FALSE] : id \in TaskIds }

\* module load: the annotation List[str] of line 25 is evaluated when the def
\* statement runs unless the interpreter defers annotations; List is not
\* imported, so the eager interpreter raises NameError before main()
PT_ImportFails == ~args.lazy_annotations

\* main, lines 125-174: everything before the first write.  readable: the
\* backlog's read_text succeeds; response: the answer typed at the prompt
PT_Main(readable, response) ==
    /\ pc = "pt_main"
    /\ UNCHANGED <<fs, args, pre, prev, runs, hvars, xvars, archive_dir>>
    /\ IF PT_ImportFails
       THEN /\ Finish("1", <<Msg("Traceback", <<"NameError">>)>>)
            /\ UNCHANGED loc
       ELSE IF ~Exists(F_BACKLOG)
       THEN /\ Finish("1", <<Msg("BacklogFileNotFound", <<>>)>>)
            /\ UNCHANGED loc
       ELSE LET r == IF readable
                     THEN PT_find_task_in_file(fs[F_BACKLOG], args.task_id)
                     ELSE NotFound
                errors == validate_task_format(r.task_lines)
                count == IF Exists(F_TODO) THEN PT_task_count(fs[F_TODO]) ELSE 0
                found == [task_file |-> F_BACKLOG, task_start |-> r.task_start,
                          task_lines |-> r.task_lines]
            IN  IF ~r.found
                THEN /\ Finish("1", (IF readable THEN <<>>
                                     ELSE <<Msg("ErrorReading", <<>>)>>)
                                    \o <<Msg("TaskNotFound", <<>>)>>)
                     /\ UNCHANGED loc
                ELSE IF errors # <<>>
                THEN /\ Finish("1", <<Msg("ValidationFailed", errors)>>)
                     /\ loc' = found
                ELSE IF args.validate_only
                THEN /\ Finish("0", <<Msg("Valid", <<>>),
                                      Msg("ValidationOnly", <<>>)>>)
                     /\ loc' = found
                ELSE IF count >= 5 /\ response # "y"
                THEN /\ Finish("0", <<Msg("Valid", <<>>), Msg("TooManyTasks", <<>>),
                                      Msg("Cancelled", <<>>)>>)
                     /\ loc' = found
                ELSE /\ pc' = "pt_remove"
                     /\ out' = out \o <<Msg("Valid", <<>>)>>
                                   \o (IF count >= 5
                                       THEN <<Msg("TooManyTasks", <<>>)>> ELSE <<>>)
                     /\ loc' = found
                     /\ UNCHANGED exit

\* remove_task_from_file, called from main line 177.  io: "ok", or the
\* call that raises ("read", "write")
PT_Remove(io) ==
    /\ pc = "pt_remove"
    /\ UNCHANGED <<args, loc, pre, prev, runs, hvars, xvars, archive_dir>>
    /\ IF io = "read" \/ (io = "write" /\ ~args.dry_run)
       THEN /\ Finish("1", <<Msg("ErrorUpdating", <<F_BACKLOG>>)>>)
            /\ UNCHANGED fs
       ELSE /\ fs' = IF args.dry_run THEN fs
                     ELSE [fs EXCEPT ![F_BACKLOG] =
                             Written(remove_task_from_file(
                               fs[F_BACKLOG], loc.task_start, loc.task_lines))]
            /\ out' = out \o <<Msg(IF args.dry_run THEN "WouldRemove"
                                   ELSE "Removed", <<>>)>>
            /\ pc' = "pt_add"
            /\ UNCHANGED exit

\* add_task_to_file, called from main line 178, then lines 179-182
PT_Add(io) ==
    /\ pc = "pt_add"
    /\ UNCHANGED <<args, loc, pre, prev, runs, hvars, xvars, archive_dir>>
    /\ IF (io = "read" /\ Exists(F_TODO)) \/ (io = "write" /\ ~args.dry_run)
       THEN /\ Finish("1", <<Msg("ErrorUpdating", <<F_TODO>>)>>)
            /\ UNCHANGED fs
       ELSE /\ fs' = IF args.dry_run THEN fs
                     ELSE [fs EXCEPT ![F_TODO] =
                             add_task_to_file(fs[F_TODO], loc.task_lines)]
            /\ Finish("0", <<Msg(IF args.dry_run THEN "WouldAdd" ELSE "Added",
                                 <<>>),
                             Msg("Promoted", <<>>)>>)

--------------------------------------------------------------------------
(* archive-task.py main *)

Priorities == {"P0", "P3"}

\* --promote-to is read only with --promote-from, --status only without it
ArchiveArgs ==
    { [tool |-> "archive-task", task_id |-> id, dry_run |-> d,
       validate_only |-> FALSE, status |-> st, promote_from |-> "None",
       promote_to |-> "P0", lazy_annotations |-> TRUE] :
        id \in TaskIds, d \in BOOLEAN, st \in {"completed", "archived"} }
    \cup
    { [tool |-> "archive-task", task_id |-> id, dry_run |-> d,
       validate_only |-> FALSE, status |-> "completed", promote_from |-> pf,
       promote_to |-> pt, lazy_annotations |-> TRUE] :
        id \in TaskIds, d \in BOOLEAN,
        pf \in Priorities, pt \in Priorities }

\* main, lines 188-211: the first of todo_files, from 1-based k on, that
\* exists and in which find_task_in_file finds the task (0: none).
\* unreadable: the file whose read_text raises, if any
RECURSIVE AT_search(_, _, _)
AT_search(k, task_id, unreadable) ==
    IF k > Len(todo_files) THEN 0
    ELSE IF /\ Exists(todo_files[k])
            /\ todo_files[k] # unreadable
            /\ AT_find_task_in_file(fs[todo_files[k]], task_id).found
         THEN k
         ELSE AT_search(k + 1, task_id, unreadable)

\* the position of file f in todo_files
AT_index(f) == CHOOSE k \in 1..Len(todo_files) : todo_files[k] = f

\* find_task_in_file prints the error of a read that fails and returns None
AT_read_errors(k, unreadable) ==
    IF /\ unreadable \in {todo_files[j] : j \in 1..Len(todo_files)}
       /\ Exists(unreadable)
       /\ (k = 0 \/ AT_index(unreadable) < k)
    THEN <<Msg("ErrorReading", <<unreadable>>)>>
    ELSE <<>>

\* main, lines 166-222 up to the first call that writes
AT_Main(unreadable) ==
    /\ pc = "at_main"
    /\ UNCHANGED <<fs, args, pre, prev, runs, hvars, xvars, archive_dir>>
    /\ LET k == AT_search(1, args.task_id, unreadable)
       IN  IF k = 0
           THEN /\ Finish("1", AT_read_errors(k, unreadable)
                               \o <<Msg("TaskNotFound", <<>>)>>)
                /\ UNCHANGED loc
           ELSE LET f == todo_files[k]
                    r == AT_find_task_in_file(fs[f], args.task_id)
                IN  /\ loc' = [task_file |-> f, task_start |-> r.task_start,
                               task_lines |->
                                 AT_main_task_lines(fs[f], r.task_start)]
                    /\ pc' = IF args.promote_from # "None" THEN "at_promote"
                             ELSE IF args.status = "completed" THEN "at_mark"
                             ELSE "at_archive"
                    /\ out' = out \o AT_read_errors(k, unreadable)
                    /\ UNCHANGED exit

\* promote_task, lines 103-147: up to and including the source write
AT_Promote(io) ==
    /\ pc = "at_promote"
    /\ UNCHANGED <<args, pre, prev, runs, hvars, xvars, archive_dir>>
    /\ LET from_file == PriorityFile(args.promote_from)
           to_file == PriorityFile(args.promote_to)
           r == AT_promote_find(fs[from_file], args.task_id)
       IN  IF ~Exists(from_file)
           THEN /\ Finish("1", <<Msg("SourceFileNotFound", <<>>)>>)
                /\ UNCHANGED <<fs, loc>>
           ELSE IF ~Exists(to_file)
           THEN /\ Finish("1", <<Msg("TargetFileNotFound", <<>>)>>)
                /\ UNCHANGED <<fs, loc>>
           ELSE IF io = "read"
           THEN /\ Finish("1", <<Msg("ErrorPromoting", <<>>)>>)
                /\ UNCHANGED <<fs, loc>>
           ELSE IF ~r.found
           THEN /\ Finish("1", <<Msg("TaskNotFoundInSource", <<>>)>>)
                /\ UNCHANGED <<fs, loc>>
           ELSE IF args.dry_run
           THEN /\ Finish("0", <<Msg("WouldMove", <<>>)>>)
                /\ loc' = [task_file |-> from_file, task_start |-> r.task_start,
                           task_lines |-> r.task_lines]
                /\ UNCHANGED fs
           ELSE IF io = "write"
           THEN /\ Finish("1", <<Msg("ErrorPromoting", <<>>)>>)
                /\ loc' = [task_file |-> from_file, task_start |-> r.task_start,
                           task_lines |-> r.task_lines]
                /\ UNCHANGED fs
           ELSE /\ fs' = [fs EXCEPT ![from_file] =
                            Written(AT_promote_remove(
                              fs[from_file], r.task_start, r.task_lines))]
                /\ loc' = [task_file |-> from_file, task_start |-> r.task_start,
                           task_lines |-> r.task_lines]
                /\ out' = out \o <<Msg("RemovedFrom", <<from_file>>)>>
                /\ pc' = "at_promote_add"
                /\ UNCHANGED exit

\* promote_task, lines 149-163: the target read and write, then main 219-222
AT_PromoteAdd(io) ==
    /\ pc = "at_promote_add"
    /\ UNCHANGED <<args, loc, pre, prev, runs, hvars, xvars, archive_dir>>
    /\ LET to_file == PriorityFile(args.promote_to)
       IN  IF io # "ok"
           THEN /\ Finish("1", <<Msg("ErrorPromoting", <<>>)>>)
                /\ UNCHANGED fs
           ELSE /\ fs' = [fs EXCEPT ![to_file] =
                            AT_promote_add(fs[to_file], loc.task_lines)]
                /\ Finish("0", <<Msg("AddedTo", <<to_file>>)>>)

\* main lines 225-229: mark_task_completed on the file the task was found in
AT_Mark(io) ==
    /\ pc = "at_mark"
    /\ UNCHANGED <<args, loc, exit, pre, prev, runs, hvars, xvars, archive_dir>>
    /\ pc' = "at_archive"
    /\ LET m == mark_task_completed(fs[loc.task_file], args.task_id)
       IN  IF io = "read" \/ (io = "write" /\ m.updated /\ ~args.dry_run)
           THEN /\ out' = out \o <<Msg("ErrorUpdating", <<loc.task_file>>),
                                   Msg("CouldNotMark", <<>>)>>
                /\ UNCHANGED fs
           ELSE IF ~m.updated
           THEN /\ out' = out \o <<Msg("CouldNotMark", <<>>)>>
                /\ UNCHANGED fs
           ELSE IF args.dry_run
           THEN /\ out' = out \o <<Msg("WouldMark", <<>>)>>
                /\ UNCHANGED fs
           ELSE /\ fs' = [fs EXCEPT ![loc.task_file] = Written(m.lines)]
                /\ out' = out \o <<Msg("Marked", <<>>)>>

\* main lines 231-238: archive_task with the task_content read in main.
\* archive_dir.mkdir (line 79) runs before dry_run is looked at; io "mkdir":
\* the directory is missing and creating it raises
AT_Archive(io) ==
    /\ pc = "at_archive"
    /\ UNCHANGED <<args, loc, pre, prev, runs, hvars, xvars>>
    /\ IF io = "mkdir" /\ ~archive_dir
       THEN /\ Finish("1", <<Msg("ErrorArchiving", <<>>)>>)
            /\ UNCHANGED <<fs, archive_dir>>
       ELSE /\ archive_dir' = TRUE
            /\ IF args.dry_run
               THEN /\ Finish("0", <<Msg("WouldArchive", <<>>)>>)
                    /\ UNCHANGED fs
               ELSE IF (io = "read" /\ Exists(F_ARCHIVE)) \/ io = "write"
               THEN /\ Finish("1", <<Msg("ErrorArchiving", <<>>)>>)
                    /\ UNCHANGED fs
               ELSE /\ fs' = [fs EXCEPT ![F_ARCHIVE] =
                                archive_task(fs[F_ARCHIVE], args.task_id,
                                             loc.task_lines)]
                    /\ Finish("0", <<Msg("Archived", <<>>)>>)

--------------------------------------------------------------------------
(* The process is killed between two of its steps *)

\* (a kill before the first writing step leaves the files as a run that
\* never started does; the points kept are those after such a step)
Interrupt ==
    /\ pc \in {"pt_add", "at_promote_add", "at_archive"}
    /\ pc' = "done"
    /\ exit' = "killed"
    /\ UNCHANGED <<fs, args, loc, out, pre, prev, runs, hvars, xvars, archive_dir>>

IO == {"ok", "read", "write"}

Next ==
    \/ \E a \in PromoteArgs \cup ArchiveArgs : Start(a)
    \/ \E readable \in BOOLEAN, response \in {"y", "n"} : PT_Main(readable, response)
    \/ \E io \in IO : PT_Remove(io)
    \/ \E io \in IO : PT_Add(io)
    \/ \E f \in {"None", F_P0, F_P3} : AT_Main(f)
    \/ \E io \in IO : AT_Promote(io)
    \/ \E io \in IO : AT_PromoteAdd(io)
    \/ \E io \in IO : AT_Mark(io)
    \/ \E io \in IO \cup {"mkdir"} : AT_Archive(io)
    \/ Interrupt

Spec == Init /\ [][Next]_vars

--------------------------------------------------------------------------
(* The structure the specification gives to documents (spec.md 3, 4.1) *)

\* heading marker depth: the leading "#"s, followed by a space or the end
RECURSIVE LeadingHashes(_)
LeadingHashes(line) ==
    IF line # <<>> /\ Head(line) = "#" THEN 1 + LeadingHashes(Tail(line)) ELSE 0

HeadingDepth(line) ==
    LET n == LeadingHashes(line)
    IN  IF n >= 1 /\ n <= 6 /\ (Len(line) = n \/ line[n + 1] = " ") THEN n ELSE 0

IsHeadingLine(line) == HeadingDepth(line) > 0
IsChecklistLine(line) == StartsWith(line, DashBracket)
IsRecordStartLine(line) == IsHeadingLine(line) \/ IsChecklistLine(line)

\* the identifier a line carries: its first PREFIX-<digits> token, whole
RECURSIVE DigitRun(_, _)
DigitRun(line, i) ==
    IF i <= Len(line) /\ line[i] \in Digits THEN 1 + DigitRun(line, i + 1) ELSE 0

OwnId(line) ==
    LET at == {i \in 1..Len(line) :
                 /\ line[i] = "TASK"
                 /\ i + 2 <= Len(line)
                 /\ line[i + 1] = "-"
                 /\ line[i + 2] \in Digits}
    IN  IF at = {} THEN <<>>
        ELSE SubSeq(line, Min(at), Min(at) + 1 + DigitRun(line, Min(at) + 2))

\* the line starts the record of the identifier
HeadsRecord(line, id) == IsRecordStartLine(line) /\ OwnId(line) = id

RecordStarts(doc, id) == {i \in 1..Len(doc) : HeadsRecord(doc[i], id)}

\* a checklist item lies below every heading
StructuralDepth(line) == IF IsHeadingLine(line) THEN HeadingDepth(line) ELSE 7

\* the first line (1-based) after i that starts a checklist item or a heading
\* of the same or shallower depth, or Len(doc) + 1
RecordEnd(doc, i) ==
    LET stops == {j \in (i + 1)..Len(doc) :
                    \/ IsChecklistLine(doc[j])
                    \/ (IsHeadingLine(doc[j])
                        /\ HeadingDepth(doc[j]) <= StructuralDepth(doc[i]))}
    IN  IF stops = {} THEN Len(doc) + 1 ELSE Min(stops)

RecordRange(doc, i) == SubSeq(doc, i, RecordEnd(doc, i) - 1)

RECURSIVE TrimBlank(_)
TrimBlank(lines) ==
    IF lines # <<>> /\ Strip(lines[Len(lines)]) = <<>>
    THEN TrimBlank(SubSeq(lines, 1, Len(lines) - 1)) ELSE lines

\* the records of a document: identifier and content, trailing blank lines
\* and position left out
AllRecordStarts(doc) ==
    {i \in 1..Len(doc) : IsRecordStartLine(doc[i]) /\ OwnId(doc[i]) # <<>>}

Records(doc) ==
    {<<OwnId(doc[i]), TrimBlank(RecordRange(doc, i))>> : i \in AllRecordStarts(doc)}

CountLine(doc, line) == Cardinality({i \in 1..Len(doc) : doc[i] = line})

\* lines occurs in doc as a block of consecutive lines
BlockCount(doc, lines) ==
    Cardinality({i \in 1..(Len(doc) - Len(lines) + 1) :
                   SubSeq(doc, i, i + Len(lines) - 1) = lines})

--------------------------------------------------------------------------
(* Runs, as the claims speak of them *)

Done == pc = "done"

MoveSource ==
    IF args.tool = "promote-task" THEN F_BACKLOG
    ELSE PriorityFile(args.promote_from)

MoveTarget ==
    IF args.tool = "promote-task" THEN F_TODO ELSE PriorityFile(args.promote_to)

\* a promotion that reported success and was no dry run
MoveSucceeded ==
    /\ Done /\ exit = "0" /\ ~args.dry_run
    /\ (Printed("Promoted") \/ Printed("AddedTo"))

\* a Move that wrote its source and ended before it wrote its target
MoveCutShort ==
    /\ Done /\ ~args.dry_run
    /\ \/ Printed("Removed") /\ ~Printed("Added")
       \/ Printed("RemovedFrom") /\ ~Printed("AddedTo")

--------------------------------------------------------------------------
(* C1 *)

\* C1: after a promotion that reports success, with no dry run and no other
\* writer, the record of the task id is no longer in the source document and
\* is in the target document exactly once, carrying exactly the lines that
\* were excised from the source.  (The source held the record once and the
\* target not at all.)
C1_MovedExactlyOnce ==
    ( /\ MoveSucceeded
      /\ MoveSource # MoveTarget
      /\ Cardinality(RecordStarts(pre[MoveSource], args.task_id)) = 1
      /\ RecordStarts(pre[MoveTarget], args.task_id) = {} )
    => /\ RecordStarts(fs[MoveSource], args.task_id) = {}
       /\ Cardinality(RecordStarts(fs[MoveTarget], args.task_id)) = 1
       /\ LET i == Min(RecordStarts(fs[MoveTarget], args.task_id))
          IN  SubSeq(fs[MoveTarget], i, i + Len(loc.task_lines) - 1)
                = loc.task_lines
       /\ BlockCount(pre[MoveSource], loc.task_lines)
            = BlockCount(fs[MoveSource], loc.task_lines) + 1

--------------------------------------------------------------------------
(* C2, C3 *)

\* what a locator returns is the record of id in doc: it starts at the
\* record's first line and ends where the record ends
LocatesRecord(r, doc, id) ==
    /\ r.found
    /\ r.task_start = Min(RecordStarts(doc, id)) - 1
    /\ r.task_lines = RecordRange(doc, Min(RecordStarts(doc, id)))

\* find_task_in_file plus the extent loop of main, as one locator
AT_main_locate(doc, id) ==
    LET r == AT_find_task_in_file(doc, id)
    IN  IF r.found
        THEN [r EXCEPT !.task_lines = AT_main_task_lines(doc, r.task_start)]
        ELSE r

\* C2: for every document and every identifier that heads a record in it,
\* each locator returns the range that starts at that line and ends right
\* before the next checklist item or heading of the same or shallower
\* depth, or at the end of the document.
C2_LocatorsReturnRecordRange ==
    \A id \in TaskIds :
        /\ (Exists(F_BACKLOG) /\ RecordStarts(fs[F_BACKLOG], id) # {})
             => LocatesRecord(PT_find_task_in_file(fs[F_BACKLOG], id),
                              fs[F_BACKLOG], id)
        /\ \A k \in 1..Len(todo_files) :
             (Exists(todo_files[k]) /\ RecordStarts(fs[todo_files[k]], id) # {})
               => /\ LocatesRecord(AT_main_locate(fs[todo_files[k]], id),
                                   fs[todo_files[k]], id)
                  /\ LocatesRecord(AT_promote_find(fs[todo_files[k]], id),
                                   fs[todo_files[k]], id)

\* C3: in a document where the identifier occurs only on lines that do not
\* start its record (prose, body text, another record's line that mentions
\* it), every locator returns not-found.
C3_MentionsAreNotFound ==
    \A id \in TaskIds :
        /\ (Exists(F_BACKLOG) /\ RecordStarts(fs[F_BACKLOG], id) = {})
             => ~PT_find_task_in_file(fs[F_BACKLOG], id).found
        /\ \A k \in 1..Len(todo_files) :
             (Exists(todo_files[k]) /\ RecordStarts(fs[todo_files[k]], id) = {})
               => /\ ~AT_find_task_in_file(fs[todo_files[k]], id).found
                  /\ ~AT_promote_find(fs[todo_files[k]], id).found

--------------------------------------------------------------------------
(* C4 *)

\* the identifier heads no record in the documents the run searches
NotFoundAnywhere ==
    IF args.tool = "promote-task"
    THEN RecordStarts(pre[F_BACKLOG], args.task_id) = {}
    ELSE \/ \A k \in 1..Len(todo_files) :
              RecordStarts(pre[todo_files[k]], args.task_id) = {}
         \/ /\ args.promote_from # "None"
            /\ pre[PriorityFile(args.promote_from)] # Absent
            /\ pre[PriorityFile(args.promote_to)] # Absent
            /\ RecordStarts(pre[PriorityFile(args.promote_from)],
                            args.task_id) = {}

ReportedNotFound ==
    \/ Printed("TaskNotFound")
    \/ Printed("TaskNotFoundInSource")
    \/ Printed("BacklogFileNotFound")

\* C4: when the identifier is found as a record start in no searched
\* document, the tool reports it, exits 1 and leaves every document
\* unchanged; it does not crash.
C4_NotFoundIsReported ==
    (Done /\ exit # "killed" /\ args.tool # "none" /\ NotFoundAnywhere)
    => /\ exit = "1"
       /\ fs = pre
       /\ ReportedNotFound
       /\ ~Printed("Traceback")

--------------------------------------------------------------------------
(* C5 *)

\* the required fields of spec.md 3, read line by line off a record
RecordHasTaskId(rec) ==
    \E k \in 1..Len(rec) : \E id \in TaskIds :
        Contains(<<"[">> \o id \o <<"]">>, rec[k])

RecordHasPriority(rec) ==
    \E k \in 1..Len(rec) : \E n \in {"0", "1", "2", "3"} :
        \/ Contains(<<"**Priority**:", " ", "P", n>>, rec[k])
        \/ Contains(<<"**priority**:", " ", "p", n>>, rec[k])

RecordHasStatus(rec) ==
    \E k \in 1..Len(rec) :
        Contains(<<"**Status**:">>, rec[k]) \/ Contains(<<"**status**:">>, rec[k])

RecordHasCriteria(rec) ==
    \E k \in 1..Len(rec) : Contains(<<"Acceptance Criteria">>, rec[k])

MissingFields(rec) ==
    (IF RecordHasTaskId(rec) THEN <<>> ELSE <<"Task ID">>)
    \o (IF RecordHasPriority(rec) THEN <<>> ELSE <<"Priority">>)
    \o (IF RecordHasStatus(rec) THEN <<>> ELSE <<"Status">>)
    \o (IF RecordHasCriteria(rec) THEN <<>> ELSE <<"Acceptance Criteria">>)

\* C5: when the located record lacks a required field, promote-task.py
\* lists the missing fields and exits 1, and it has written nothing:
\* validation comes before the first write.
C5_ValidationBlocksWrites ==
    ( /\ args.tool = "promote-task"
      /\ loc.task_file = F_BACKLOG
      /\ MissingFields(loc.task_lines) # <<>> )
    => /\ Done
       /\ exit = "1"
       /\ fs = pre
       /\ out = <<Msg("ValidationFailed", MissingFields(loc.task_lines))>>

C5_Witness ==
    /\ args.tool = "promote-task"
    /\ ~args.validate_only
    /\ loc.task_file = F_BACKLOG
    /\ Len(MissingFields(loc.task_lines)) >= 2
    /\ Done /\ exit = "1" /\ Printed("ValidationFailed")

--------------------------------------------------------------------------
(* C6 *)

\* the first line that the Move excised, counted over source and target
ExcisedLineCount(files) ==
    IF MoveSource = MoveTarget
    THEN CountLine(files[MoveSource], loc.task_lines[1])
    ELSE CountLine(files[MoveSource], loc.task_lines[1])
         + CountLine(files[MoveTarget], loc.task_lines[1])

RecordLost == ExcisedLineCount(fs) < ExcisedLineCount(pre)
RecordDuplicated == ExcisedLineCount(fs) > ExcisedLineCount(pre)

\* C6: a Move is two writes with no rollback: when the process ends after
\* the write of the source and before the write of the target, the record
\* is lost or duplicated, and the run is no success.
C6_CutShortMoveLosesOrDuplicates ==
    MoveCutShort => /\ RecordLost \/ RecordDuplicated
                    /\ exit \in {"1", "killed"}

C6_Witness ==
    /\ MoveCutShort
    /\ exit = "killed"
    /\ RecordLost
    /\ fs[MoveTarget] = pre[MoveTarget]

--------------------------------------------------------------------------
(* C7 *)

RecordCount(files, a, b) ==
    Cardinality(AllRecordStarts(files[a])) + Cardinality(AllRecordStarts(files[b]))

\* this run moved the record back that the run before it had moved
MovedThereAndBack ==
    /\ MoveSucceeded
    /\ MoveSource # MoveTarget
    /\ prev.op = "move"
    /\ prev.task_id = args.task_id
    /\ prev.src = MoveTarget
    /\ prev.dst = MoveSource

\* C7: a record moved from A to B and then back from B to A leaves the set
\* of records over both documents as it was before the two moves: the same
\* number of records, each with the same content.
C7_MoveThereAndBack ==
    MovedThereAndBack
    => /\ Records(fs[MoveSource]) \cup Records(fs[MoveTarget])
            = Records(prev.pre[MoveSource]) \cup Records(prev.pre[MoveTarget])
       /\ RecordCount(fs, MoveSource, MoveTarget)
            = RecordCount(prev.pre, MoveSource, MoveTarget)

--------------------------------------------------------------------------
(* C8, C9 *)

\* mark_task_completed has run and wrote the document
Marked == args.tool = "archive-task" /\ ~args.dry_run /\ Printed("Marked")

\* the lines (1-based) of the range that main located
InLocatedRange(i) ==
    i > loc.task_start /\ i <= loc.task_start + Len(loc.task_lines)

\* C8: on a record whose checkbox is "- [ ]", mark_task_completed replaces
\* the marker on the first matching line of the record's range and changes
\* nothing else: every line outside the located range, the lines of other
\* records that mention the identifier among them, is as it was.
C8_MarkChangesOnlyTheRecord ==
    (Marked /\ Contains(Unchecked, pre[loc.task_file][loc.task_start + 1]))
    => /\ Len(fs[loc.task_file]) = Len(pre[loc.task_file])
       /\ fs[loc.task_file][loc.task_start + 1]
            = Replace(pre[loc.task_file][loc.task_start + 1], Unchecked, Checked)
       /\ \A i \in 1..Len(pre[loc.task_file]) :
            ~InLocatedRange(i) => fs[loc.task_file][i] = pre[loc.task_file][i]

\* mark_task_completed has run to its end, without an I/O error
MarkReturned ==
    /\ args.tool = "archive-task" /\ ~args.dry_run
    /\ args.promote_from = "None" /\ args.status = "completed"
    /\ pc \in {"at_archive", "done"}
    /\ loc.task_file # ""
    /\ ~Printed("ErrorUpdating")

\* C9: mark_task_completed is idempotent: on a record that is already
\* "- [x]" it reports success and leaves the document as it was, and a
\* second run on a record that a first run completed succeeds and gives
\* the document the first run gave.
C9_MarkIdempotent ==
    /\ ( /\ MarkReturned
         /\ RecordStarts(pre[loc.task_file], args.task_id) # {}
         /\ \A i \in RecordStarts(pre[loc.task_file], args.task_id) :
               Contains(Checked, pre[loc.task_file][i]) )
       => /\ ~Printed("CouldNotMark")
          /\ fs[loc.task_file] = pre[loc.task_file]
    /\ ( /\ MarkReturned
         /\ prev.op = "mark" /\ prev.task_id = args.task_id
         /\ prev.src = loc.task_file )
       => /\ ~Printed("CouldNotMark")
          /\ fs[loc.task_file] = pre[loc.task_file]

--------------------------------------------------------------------------
(* C10 *)

\* line, completed in f before the step, is pending in f after it
Uncompleted(f, line) ==
    /\ Contains(Checked, line)
    /\ CountLine(fs'[f], line) < CountLine(fs[f], line)
    /\ CountLine(fs'[f], Replace(line, Checked, Unchecked))
         > CountLine(fs[f], Replace(line, Checked, Unchecked))

NoStepUncompletes ==
    \A f \in Files : \A i \in 1..Len(fs[f]) : ~Uncompleted(f, fs[f][i])

--------------------------------------------------------------------------
(* C11 *)

\* an archive run (no --promote-from, no dry run) that reported success
ArchiveSucceeded ==
    /\ args.tool = "archive-task" /\ args.promote_from = "None"
    /\ ~args.dry_run
    /\ Done /\ exit = "0" /\ Printed("Archived")

\* how many of the TODO files hold a record headed by id
TodoFilesHolding(files, id) ==
    Cardinality({k \in 1..Len(todo_files) :
                    RecordStarts(files[todo_files[k]], id) # {}})

\* C11: archiving moves the task to the archive: after a successful run the
\* record is in the dated archive file and no longer in the TODO file it
\* was found in, so it exists exactly once over the TODO files and the
\* archive.
C11_ArchivedExactlyOnce ==
    (ArchiveSucceeded /\ RecordStarts(pre[loc.task_file], args.task_id) # {})
    => /\ BlockCount(fs[F_ARCHIVE], loc.task_lines) >= 1
       /\ RecordStarts(fs[loc.task_file], args.task_id) = {}
       /\ TodoFilesHolding(fs, args.task_id) = 0

--------------------------------------------------------------------------
(* create-hitl-item.py and manage-waivers.py: numbers and identifiers *)

Max(S) == CHOOSE x \in S : \A y \in S : y <= x

DigitChars == <<"0", "1", "2", "3", "4", "5", "6", "7", "8", "9">>

DigitValue(d) == (CHOOSE k \in 1..10 : DigitChars[k] = d) - 1

\* int(id), on a run of digits
RECURSIVE IntOf(_)
IntOf(ds) ==
    IF ds = <<>> THEN 0
    ELSE 10 * IntOf(SubSeq(ds, 1, Len(ds) - 1)) + DigitValue(ds[Len(ds)])

\* str(n)
RECURSIVE DigitsOf(_)
DigitsOf(n) ==
    IF n < 10 THEN <<DigitChars[n + 1]>>
    ELSE DigitsOf(n \div 10) \o <<DigitChars[(n % 10) + 1]>>

\* f"{n:04d}": zeros to the left up to four digits, all the digits beyond
Format04d(n) ==
    LET d == DigitsOf(n)
    IN  [i \in 1..(IF Len(d) < 4 THEN 4 - Len(d) ELSE 0) |-> "0"] \o d

\* (\d+) at position i of s: the longest run of digits from there
DigitsAt(s, i) ==
    LET stops == {j \in i..Len(s) : s[j] \notin Digits}
    IN  SubSeq(s, i, IF stops = {} THEN Len(s) ELSE Min(stops) - 1)

\* [int(id) for id in re.findall(prefix + r"(\d+)", s)], as a set
FindAllIds(prefix, s) ==
    {IntOf(DigitsAt(s, i + 1)) :
        i \in {k \in 1..(Len(s) - 1) : s[k] = prefix /\ s[k + 1] \in Digits}}

HITL == "HITL-"
WAIVER == "WAIVER-"
DotMd == ".md"

\* an allocator that returns the first unused suffix (C12 does not hold of it)
first_gap_hitl_id(content) ==
    IF content = NoFile \/ FindAllIds(HITL, content) = {}
    THEN <<HITL>> \o Format04d(1)
    ELSE <<HITL>> \o Format04d(Min({n \in 1..(Max(FindAllIds(HITL, content)) + 1) :
                                      n \notin FindAllIds(HITL, content)}))

\* get_next_hitl_id, on the content of the index file
get_next_hitl_id(content) ==
    LET ids == FindAllIds(HITL, content)
    IN  IF content = NoFile THEN <<HITL>> \o <<"0", "0", "0", "1">>
        ELSE IF ids = {} THEN <<HITL>> \o <<"0", "0", "0", "1">>
        ELSE <<HITL>> \o Format04d(Max(ids) + 1)

\* waivers_dir.glob("WAIVER-*.md")
GlobWaivers(files) ==
    {f \in files : /\ Len(f.name) >= 2
                   /\ f.name[1] = WAIVER
                   /\ f.name[Len(f.name)] = DotMd}

\* re.search(r"WAIVER-(\d+)", f.name): the leftmost match, {} without one
WaiverNumber(name) ==
    LET at == {k \in 1..(Len(name) - 1) : name[k] = WAIVER /\ name[k + 1] \in Digits}
    IN  IF at = {} THEN {} ELSE {IntOf(DigitsAt(name, Min(at) + 1))}

\* an allocator that counts from zero (C13 does not hold of it)
get_waiver_id_from_zero(dir) ==
    LET ids == UNION {WaiverNumber(f.name) : f \in GlobWaivers(dir.files)}
    IN  IF ~dir.exists \/ ids = {} THEN <<WAIVER>> \o Format04d(0)
        ELSE <<WAIVER>> \o Format04d(Max(ids) + 1)

\* get_waiver_id, on the waivers directory
get_waiver_id(dir) ==
    LET ids == UNION {WaiverNumber(f.name) : f \in GlobWaivers(dir.files)}
    IN  IF ~dir.exists THEN <<WAIVER>> \o <<"0", "0", "0", "1">>
        ELSE IF GlobWaivers(dir.files) = {} THEN <<WAIVER>> \o <<"0", "0", "0", "1">>
        ELSE IF ids = {} THEN <<WAIVER>> \o <<"0", "0", "0", "1">>
        ELSE <<WAIVER>> \o Format04d(Max(ids) + 1)

--------------------------------------------------------------------------
(* create-hitl-item.py: add_to_index *)

\* the newline character, as a token of a text
LF == "\n"
ActiveHeading == "### Active"
ArchivedHeading == "### Archived"
Whitespace == {" ", LF, "\t"}
\* `\d` in a replacement template: re.error, bad escape
BadEscape == "\\d"
\* `\1` in a replacement template: group 1 of the match
GroupRef == "\\1"

TableHeader ==
    <<"|", "ID", "|", "Category", "|", "Status", "|", "Summary", "|",
      "Filepath", "|">>
TableSeparator ==
    <<"|", "---", "|", "---", "|", "---", "|", "---", "|", "---", "|">>

\* f"|{hitl_id}|{category}|Pending|{summary}|{filepath}|"
IndexRow(hitl_id, category, summary, filepath) ==
    <<"|">> \o hitl_id \o <<"|", category, "|", "Pending", "|">> \o summary
        \o <<"|">> \o filepath \o <<"|">>

\* item_relative_path
ItemPath(hitl_id) == <<".repo/hitl/">> \o hitl_id \o <<DotMd>>

\* the content written when there is no index file
IndexTemplate(row) ==
    <<"# /.repo/policy/HITL.md", LF,
      "HITL = Human-In-The-Loop. This is the single binding place for human-required actions.",
      LF, LF, "## Index tables", LF, ActiveHeading, LF>>
    \o TableHeader \o <<LF>> \o TableSeparator \o <<LF>> \o row
    \o <<LF, LF, ArchivedHeading, LF>>
    \o TableHeader \o <<LF>> \o TableSeparator \o <<LF>>

\* the section appended when the pattern finds no Active table
ActiveSection(row) ==
    <<LF, ActiveHeading, LF>> \o TableHeader \o <<LF>> \o TableSeparator
    \o <<LF>> \o row \o <<LF>>

\* \|[^\n]+\n at position i: the position of its "\n", 0 without a match
PipeLineEnd(s, i) ==
    IF i > Len(s) THEN 0
    ELSE IF s[i] # "|" THEN 0
    ELSE LET nls == {j \in (i + 1)..Len(s) : s[j] = LF}
         IN  IF nls = {} THEN 0
             ELSE IF Min(nls) >= i + 2 THEN Min(nls) ELSE 0

\* group 1, (### Active\s*\n\|[^\n]+\n\|[^\n]+\n), at position i: the
\* position of its last character, 0 without a match
HeaderEnd(s, i) ==
    IF s[i] # ActiveHeading THEN 0
    ELSE LET rest == {j \in (i + 1)..Len(s) : s[j] \notin Whitespace}
             j == IF rest = {} THEN Len(s) + 1 ELSE Min(rest)
         IN  IF j - 1 <= i \/ j > Len(s) THEN 0
             ELSE IF s[j - 1] # LF THEN 0
             ELSE IF PipeLineEnd(s, j) = 0 THEN 0
             ELSE PipeLineEnd(s, PipeLineEnd(s, j) + 1)

\* group 2, ((?:\|[^\n]+\n?)*), from position p: the position of its last
\* character, p - 1 when it is empty
RECURSIVE RowsEnd(_, _)
RowsEnd(s, p) ==
    IF p + 1 > Len(s) THEN p - 1
    ELSE IF s[p] # "|" \/ s[p + 1] = LF THEN p - 1
    ELSE LET nls == {j \in (p + 1)..Len(s) : s[j] = LF}
         IN  IF nls = {} THEN Len(s) ELSE RowsEnd(s, Min(nls) + 1)

\* re.search(active_table_pattern, content) from position from on: where
\* the leftmost match starts, 0 without a match
SearchActive(s, from) ==
    LET at == {i \in from..Len(s) : HeaderEnd(s, i) # 0}
    IN  IF at = {} THEN 0 ELSE Min(at)

\* the replacement template, expanded for a match whose group 1 is g1
RECURSIVE Expand(_, _)
Expand(template, g1) ==
    IF template = <<>> THEN <<>>
    ELSE (IF template[1] = GroupRef THEN g1 ELSE <<template[1]>>)
         \o Expand(Tail(template), g1)

\* re.sub(active_table_pattern, template, s), from position from on
RECURSIVE SubActive(_, _, _)
SubActive(s, template, from) ==
    LET i == SearchActive(s, from)
    IN  IF i = 0 THEN SubSeq(s, from, Len(s))
        ELSE SubSeq(s, from, i - 1)
             \o Expand(template, SubSeq(s, i, HeaderEnd(s, i)))
             \o SubActive(s, template, RowsEnd(s, HeaderEnd(s, i) + 1) + 1)

\* table_header + table_rows + new_row, for the leftmost match
new_table(content, row) ==
    LET i == SearchActive(content, 1)
        h == HeaderEnd(content, i)
    IN  SubSeq(content, i, h) \o SubSeq(content, h + 1, RowsEnd(content, h + 1))
        \o row \o <<LF>>

\* add_to_index without the table append: the row goes to the end of the file
add_to_index_at_end(content, row) ==
    IF content = NoFile THEN [error |-> FALSE, text |-> IndexTemplate(row)]
    ELSE [error |-> FALSE, text |-> content \o <<LF>> \o row \o <<LF>>]

\* add_to_index: what it writes on content, or that it raised
add_to_index(content, row) ==
    LET template == new_table(content, row)
    IN  IF content = NoFile THEN [error |-> FALSE, text |-> IndexTemplate(row)]
        ELSE IF SearchActive(content, 1) # 0
        THEN IF \E k \in 1..Len(template) : template[k] = BadEscape
             THEN [error |-> TRUE, text |-> content]
             ELSE [error |-> FALSE, text |-> SubActive(content, template, 1)]
        ELSE [error |-> FALSE, text |-> content \o ActiveSection(row)]

--------------------------------------------------------------------------
(* create-hitl-item.py and manage-waivers.py create: files and runs *)

Hitl(n, width) ==
    <<HITL>> \o [i \in 1..(width - Len(DigitsOf(n))) |-> "0"] \o DigitsOf(n)

Waiver(n, width) ==
    <<WAIVER>> \o [i \in 1..(width - Len(DigitsOf(n))) |-> "0"] \o DigitsOf(n)

\* a row of the index, as an earlier run wrote it
OldRow(n) == IndexRow(Hitl(n, 4), "Risk", <<"old">>, ItemPath(Hitl(n, 4)))

\* .repo/policy/HITL.md
IndexDocs ==
    { NoFile,
      \* the template's shape, both tables empty
      <<"## Index tables", LF, ActiveHeading, LF>> \o TableHeader \o <<LF>>
        \o TableSeparator \o <<LF, LF, ArchivedHeading, LF>> \o TableHeader
        \o <<LF>> \o TableSeparator \o <<LF>>,
      \* the template's shape, HITL-0001 and HITL-0003 active
      <<"## Index tables", LF, ActiveHeading, LF>> \o TableHeader \o <<LF>>
        \o TableSeparator \o <<LF>> \o OldRow(1) \o <<LF>> \o OldRow(3)
        \o <<LF, LF, ArchivedHeading, LF>> \o TableHeader \o <<LF>>
        \o TableSeparator \o <<LF>>,
      \* the Active table ends the file, no newline after its last row
      <<ActiveHeading, LF>> \o TableHeader \o <<LF>> \o TableSeparator
        \o <<LF>> \o OldRow(1),
      \* no Active section; prose that names HITL-07
      <<"# Index", LF, "see", " ">> \o Hitl(7, 2),
      \* HITL-0002 active, HITL-9999 archived
      <<ActiveHeading, LF>> \o TableHeader \o <<LF>> \o TableSeparator
        \o <<LF>> \o OldRow(2) \o <<LF, LF, ArchivedHeading, LF>>
        \o TableHeader \o <<LF>> \o TableSeparator \o <<LF>> \o OldRow(9999)
        \o <<LF>> }

WaiverFile(name) == [name |-> name, content |-> <<"old">>]

\* .repo/waivers
WaiverDirs ==
    { [exists |-> FALSE, files |-> {}],
      [exists |-> TRUE, files |-> {}],
      [exists |-> TRUE, files |-> {WaiverFile(<<WAIVER, "draft", DotMd>>)}],
      [exists |-> TRUE,
       files |-> {WaiverFile(Waiver(1, 4) \o <<DotMd>>),
                  WaiverFile(Waiver(3, 4) \o <<DotMd>>)}],
      [exists |-> TRUE, files |-> {WaiverFile(Waiver(9999, 4) \o <<DotMd>>)}],
      [exists |-> TRUE,
       files |-> {WaiverFile(Waiver(7, 2) \o <<DotMd>>),
                  WaiverFile(<<WAIVER, "draft", DotMd>>)}] }

\* --summary of create-hitl-item.py, --why of manage-waivers.py
Summaries == { <<"Review">>, <<"A", "|", "B">>, <<"C:", BadEscape, "ir">> }

CreateArgs ==
    [tool : {"create-hitl-item", "manage-waivers"}, summary : Summaries,
     dry_run : BOOLEAN]

\* create invocations per behaviour
MaxCreates == 3

Running(p) == proc[p].pc \notin {"idle", "done"}

HInit ==
    /\ fs = [f \in Files |-> Absent]
    /\ args = NoArgs
    /\ pc = "idle"
    /\ loc = NoLoc
    /\ exit = "none"
    /\ out = <<>>
    /\ pre = fs
    /\ prev = [op |-> "none", task_id |-> <<>>, src |-> "", dst |-> "", pre |-> fs]
    /\ runs = 0
    /\ archive_dir = FALSE
    /\ NoOtherRuns
    /\ \E i \in IndexDocs, w \in WaiverDirs :
         /\ (i = NoFile \/ ~w.exists)
         /\ index = i
         /\ waivers = w
    /\ hitl_dir = {}
    /\ proc = [p \in Procs |-> NoProc]
    /\ handed = <<>>
    /\ overlap = FALSE

\* a process starts: argparse has the flags, nothing is read yet
\* (the two tools share no file: a behaviour runs one of them; the
\* processes are alike: process 2 starts no earlier than process 1)
Create(p, a) ==
    /\ ~Running(p)
    /\ p = 2 => proc[1].pc # "idle"
    /\ a.tool = "manage-waivers" => index = NoFile /\ hitl_dir = {}
    /\ a.tool = "create-hitl-item" => ~waivers.exists
    /\ \A q \in Procs : proc[q].tool \in {"none", a.tool}
    /\ Len(handed) + Cardinality({q \in Procs : proc[q].pc = "allocate"})
         < MaxCreates
    /\ proc' = [proc EXCEPT ![p] =
                  [NoProc EXCEPT !.pc = "allocate", !.tool = a.tool,
                                 !.summary = a.summary, !.dry_run = a.dry_run]]
    /\ overlap' = (overlap \/ \E q \in Procs \ {p} : Running(q))
    /\ UNCHANGED <<index, hitl_dir, waivers, handed, tvars, xvars>>

\* sync-hitl-to-pr.py parse_hitl_table, line 50: row.split("|")[1:-1]
RECURSIVE SplitOn(_, _)
SplitOn(s, sep) ==
    LET at == {k \in 1..Len(s) : s[k] = sep}
    IN  IF at = {} THEN <<s>>
        ELSE <<SubSeq(s, 1, Min(at) - 1)>>
               \o SplitOn(SubSeq(s, Min(at) + 1, Len(s)), sep)

RowCells(row) ==
    LET parts == SplitOn(row, "|")
    IN  SubSeq(parts, 2, Len(parts) - 1)

\* the record of an allocation
Handed(p, id) ==
    [tool |-> proc[p].tool, n |-> IntOf(Tail(id)), by |-> p,
     dry_run |-> proc[p].dry_run]

\* an allocation that reserves its identifier by creating the item file
\* (C15 does not hold of it)
HC_Allocate_reserving(p) ==
    /\ proc[p].pc = "allocate" /\ proc[p].tool = "create-hitl-item"
    /\ LET hitl_id == get_next_hitl_id(index)
       IN  /\ proc' = [proc EXCEPT ![p].id = hitl_id, ![p].pc = "write_item"]
           /\ handed' = Append(handed, Handed(p, hitl_id))
           /\ hitl_dir' = {f \in hitl_dir : f.name # hitl_id \o <<DotMd>>}
                            \cup {[name |-> hitl_id \o <<DotMd>>,
                                   content |-> [id |-> hitl_id, summary |-> <<>>]]}
    /\ UNCHANGED <<index, waivers, overlap, tvars, xvars>>

\* create-hitl-item.py main, line 187
HC_Allocate(p) ==
    /\ proc[p].pc = "allocate" /\ proc[p].tool = "create-hitl-item"
    /\ LET hitl_id == get_next_hitl_id(index)
       IN  /\ proc' = [proc EXCEPT ![p].id = hitl_id, ![p].pc = "write_item"]
           /\ handed' = Append(handed, Handed(p, hitl_id))
    /\ UNCHANGED <<index, hitl_dir, waivers, overlap, tvars, xvars>>

\* the item file of a run: its name, and what create_hitl_item put in it
ItemFile(p) ==
    [name |-> proc[p].id \o <<DotMd>>,
     content |-> [id |-> proc[p].id, summary |-> proc[p].summary]]

\* a write that never replaces a file (C16 does not hold of it)
WriteFile_keeping(files, file) == files \cup {file}

\* path.write_text(content) in a directory: the file of that name is replaced
WriteFile(files, file) == {f \in files : f.name # file.name} \cup {file}

\* main, lines 203-210 (and 215-223 on a dry run)
HC_WriteItem(p) ==
    /\ proc[p].pc = "write_item"
    /\ IF proc[p].dry_run
       THEN /\ proc' = [proc EXCEPT ![p].pc = "done", ![p].exit = "0"]
            /\ UNCHANGED hitl_dir
       ELSE /\ hitl_dir' = WriteFile(hitl_dir, ItemFile(p))
            /\ proc' = [proc EXCEPT ![p].pc = "index_read"]
    /\ UNCHANGED <<index, waivers, handed, overlap, tvars, xvars>>

\* add_to_index, lines 113 and 131: exists() and read_text()
HC_IndexRead(p) ==
    /\ proc[p].pc = "index_read"
    /\ proc' = [proc EXCEPT ![p].seen = index, ![p].pc = "index_write"]
    /\ UNCHANGED <<index, hitl_dir, waivers, handed, overlap, tvars, xvars>>

\* the row main asks add_to_index for
NewRow(p) ==
    IndexRow(proc[p].id, "Risk", proc[p].summary, ItemPath(proc[p].id))

\* add_to_index, lines 128 and 133-157, then main to sys.exit(0); an
\* exception of re.sub ends the process with a traceback, exit code 1
HC_IndexWrite(p) ==
    /\ proc[p].pc = "index_write"
    /\ LET r == add_to_index(proc[p].seen, NewRow(p))
       IN  IF r.error
           THEN /\ proc' = [proc EXCEPT ![p].pc = "done", ![p].exit = "1"]
                /\ UNCHANGED index
           ELSE /\ index' = r.text
                /\ proc' = [proc EXCEPT ![p].pc = "done", ![p].exit = "0"]
    /\ UNCHANGED <<hitl_dir, waivers, handed, overlap, tvars, xvars>>

\* manage-waivers.py main, line 193
WC_Allocate(p) ==
    /\ proc[p].pc = "allocate" /\ proc[p].tool = "manage-waivers"
    /\ LET waiver_id == get_waiver_id(waivers)
       IN  /\ proc' = [proc EXCEPT ![p].id = waiver_id,
                                   ![p].pc = "write_waiver"]
           /\ handed' = Append(handed, Handed(p, waiver_id))
    /\ UNCHANGED <<index, hitl_dir, waivers, overlap, tvars, xvars>>

\* main, lines 205-218, to sys.exit(0)
WC_Write(p) ==
    /\ proc[p].pc = "write_waiver"
    /\ IF proc[p].dry_run
       THEN UNCHANGED waivers
       ELSE waivers' =
              [exists |-> TRUE,
               files |-> WriteFile(waivers.files,
                                   [name |-> proc[p].id \o <<DotMd>>,
                                    content |-> proc[p].summary])]
    /\ proc' = [proc EXCEPT ![p].pc = "done", ![p].exit = "0"]
    /\ UNCHANGED <<index, hitl_dir, handed, overlap, tvars, xvars>>

HNext ==
    \/ \E p \in Procs, a \in CreateArgs : Create(p, a)
    \/ \E p \in Procs : HC_Allocate(p)
    \/ \E p \in Procs : HC_WriteItem(p)
    \/ \E p \in Procs : HC_IndexRead(p)
    \/ \E p \in Procs : HC_IndexWrite(p)
    \/ \E p \in Procs : WC_Allocate(p)
    \/ \E p \in Procs : WC_Write(p)

HSpec == HInit /\ [][HNext]_vars

--------------------------------------------------------------------------
(* Claims on the identifier allocators *)

\* the identifiers a scope holds, by their numeric suffixes
IndexSuffixes == IF index = NoFile THEN {} ELSE FindAllIds(HITL, index)

WaiverSuffixes ==
    IF ~waivers.exists THEN {}
    ELSE UNION {WaiverNumber(f.name) : f \in GlobWaivers(waivers.files)}

\* process p takes the allocation step of its tool
Allocates(p) ==
    /\ proc[p].pc = "allocate"
    /\ proc'[p].pc \in {"write_item", "write_waiver"}

Suffix(id) == IntOf(Tail(id))

\* the scope process p allocates from
ScopeSuffixes(p) ==
    IF proc[p].tool = "create-hitl-item" THEN IndexSuffixes ELSE WaiverSuffixes

AllocatesMaxPlusOne ==
    \A p \in Procs :
        (Allocates(p) /\ ScopeSuffixes(p) # {})
        => Suffix(proc'[p].id) = Max(ScopeSuffixes(p)) + 1

\* C12: on a non-empty scope, get_next_hitl_id and get_waiver_id return the
\* identifier whose suffix is the largest existing suffix plus one, never
\* the first unused gap: a scope holding {1, 3} yields 4.
C12_MaxPlusOne == [][AllocatesMaxPlusOne]_vars

\* an index holding HITL-0001 and HITL-0003, and HITL-0004 just allocated
C12_Witness ==
    /\ IndexSuffixes = {1, 3}
    /\ \E p \in Procs : proc[p].pc = "write_item" /\ Suffix(proc[p].id) = 4

\* the scope process p allocates from is missing, or names no identifier
ScopeIsEmpty(p) ==
    IF proc[p].tool = "create-hitl-item"
    THEN index = NoFile \/ \A k \in 1..Len(index) : index[k] # HITL
    ELSE \/ ~waivers.exists
         \/ \A f \in waivers.files :
               ~(Len(f.name) >= 3 /\ f.name[1] = WAIVER /\ f.name[2] \in Digits)

FirstId(p) ==
    IF proc[p].tool = "create-hitl-item"
    THEN <<HITL, "0", "0", "0", "1">>
    ELSE <<WAIVER, "0", "0", "0", "1">>

AllocatesFirstId ==
    \A p \in Procs :
        (Allocates(p) /\ ScopeIsEmpty(p)) => proc'[p].id = FirstId(p)

\* C13: when the scope does not exist, or exists but holds no identifier of
\* the prefix (missing or empty waivers directory, missing index file, index
\* without a HITL token), the allocator returns suffix 1: WAIVER-0001 and
\* HITL-0001.
C13_EmptyScopeGivesOne == [][AllocatesFirstId]_vars

\* the waivers directory exists and is empty, and WAIVER-0001 is allocated
C13_Witness ==
    /\ waivers.exists /\ waivers.files = {}
    /\ \E p \in Procs :
         proc[p].pc = "write_waiver" /\ proc[p].id = <<WAIVER, "0", "0", "0", "1">>

\* C14: every identifier returned by get_next_hitl_id and get_waiver_id has
\* a numeric suffix of exactly four zero-padded digits, for every existing
\* maximum (a maximum of 9999 and identifiers of another width included).
C14_FourDigitSuffix ==
    \A p \in Procs :
        proc[p].id # <<>>
        => /\ Len(Tail(proc[p].id)) = 4
           /\ \A k \in 1..4 : Tail(proc[p].id)[k] \in Digits

\* what a call of process p's allocator returns on the given scope
AllocatorOn(p, idx, dir) ==
    IF proc[p].tool = "create-hitl-item"
    THEN get_next_hitl_id(idx) ELSE get_waiver_id(dir)

AllocationIsPureScan ==
    \A p \in Procs :
        Allocates(p)
        => /\ index' = index
           /\ hitl_dir' = hitl_dir
           /\ waivers' = waivers
           /\ proc'[p].id = AllocatorOn(p, index', waivers')

\* C15: allocation is a pure scan: get_next_hitl_id and get_waiver_id change
\* no file or directory, and a second call on the unchanged scope returns the
\* same identifier (allocating records no reservation).
C15_AllocationIsPureScan == [][AllocationIsPureScan]_vars

\* two invocations have allocated, nothing is written yet, both hold one id
C15_Witness ==
    /\ proc[1].pc = "write_item" /\ proc[2].pc = "write_item"
    /\ proc[1].id = proc[2].id
    /\ hitl_dir = {}

--------------------------------------------------------------------------
(* Claims on concurrent and successive creates *)

\* rows of the index whose ID column holds id
RowsFor(text, id) ==
    IF text = NoFile THEN 0
    ELSE Cardinality({k \in 1..Len(text) :
            /\ k + Len(id) + 1 <= Len(text)
            /\ SubSeq(text, k, k + Len(id) + 1) = <<"|">> \o id \o <<"|">>})

\* both invocations wrote (no dry run), are over, and held one identifier
BothCreatedOneId ==
    /\ proc[1].pc = "done" /\ proc[2].pc = "done"
    /\ ~proc[1].dry_run /\ ~proc[2].dry_run
    /\ proc[1].id # <<>> /\ proc[1].id = proc[2].id

FilesNamed(files, id) == {f \in files : f.name = id \o <<DotMd>>}

C16_RowLost ==
    /\ BothCreatedOneId /\ overlap
    /\ proc[1].tool = "create-hitl-item"
    /\ proc[1].summary # proc[2].summary
    /\ proc[1].exit = "0" /\ proc[2].exit = "0"
    /\ RowsFor(index, proc[1].id) = 1

\* C17: within one scope, the suffixes handed out by successive sequential
\* create operations (no two invocations at the same time, dry runs left
\* aside) are strictly increasing in allocation order.
C17_StrictlyIncreasing ==
    ~overlap
    => \A i, j \in 1..Len(handed) :
          (i < j /\ ~handed[i].dry_run /\ ~handed[j].dry_run)
          => handed[i].n < handed[j].n

--------------------------------------------------------------------------
(* Claims on the index table *)

\* the lines of a text: what str.split("\n") gives
RECURSIVE TextLines(_)
TextLines(text) ==
    LET ends == {k \in 1..Len(text) : text[k] = LF}
    IN  IF ends = {} THEN <<text>>
        ELSE <<SubSeq(text, 1, Min(ends) - 1)>>
               \o TextLines(SubSeq(text, Min(ends) + 1, Len(text)))

IsPipeLine(line) == line # <<>> /\ line[1] = "|"

\* the line number of the first Active heading that a header line and a
\* separator line follow, 0 without one
ActiveTableAt(lines) ==
    LET at == {a \in 1..(Len(lines) - 2) :
                  /\ lines[a] = <<ActiveHeading>>
                  /\ IsPipeLine(lines[a + 1])
                  /\ IsPipeLine(lines[a + 2])}
    IN  IF at = {} THEN 0 ELSE Min(at)

\* the data rows of the table whose heading is line a: the lines from a + 3
\* up to the first line that is not a table line
DataRows(lines, a) ==
    LET stops == {j \in (a + 3)..Len(lines) : ~IsPipeLine(lines[j])}
    IN  SubSeq(lines, a + 3, IF stops = {} THEN Len(lines) ELSE Min(stops) - 1)

\* process p completes add_to_index
IndexWritten(p) ==
    /\ proc[p].pc = "index_write"
    /\ proc'[p].pc = "done" /\ proc'[p].exit = "0"

RowAppended ==
    \A p \in Procs :
        (/\ IndexWritten(p)
         /\ proc[p].seen # NoFile
         /\ ActiveTableAt(TextLines(proc[p].seen)) # 0)
        => LET old == TextLines(proc[p].seen)
               new == TextLines(index')
               a   == ActiveTableAt(old)
           IN  /\ ActiveTableAt(new) = a
               /\ new[a + 1] = old[a + 1]
               /\ new[a + 2] = old[a + 2]
               /\ DataRows(new, a) = DataRows(old, a) \o <<NewRow(p)>>

\* C18: add_to_index on an index whose Active table has N data rows yields
\* an Active table of N + 1 data rows, the new row last, header line and
\* separator line unchanged, for every N >= 0 and whether or not a newline
\* follows the last existing row.
C18_RowAppended == [][RowAppended]_vars

HasActiveHeading(text) == \E k \in 1..Len(text) : text[k] = ActiveHeading

NonEmptyLines(lines) == SelectSeq(lines, LAMBDA l : l # <<>>)

SectionCreated ==
    \A p \in Procs :
        IndexWritten(p)
        => /\ (proc[p].seen # NoFile /\ ~HasActiveHeading(proc[p].seen))
              => /\ Len(index') > Len(proc[p].seen)
                 /\ SubSeq(index', 1, Len(proc[p].seen)) = proc[p].seen
                 /\ NonEmptyLines(TextLines(
                        SubSeq(index', Len(proc[p].seen) + 1, Len(index'))))
                      = <<<<ActiveHeading>>, TableHeader, TableSeparator, NewRow(p)>>
           /\ proc[p].seen = NoFile
              => /\ index' = IndexTemplate(NewRow(p))
                 /\ DataRows(TextLines(index'), ActiveTableAt(TextLines(index')))
                      = <<NewRow(p)>>

\* C19: when the index has no Active section, add_to_index creates it
\* (heading, header row, separator row, the new row) and appends it, the
\* earlier content staying as an unchanged prefix; when the index file does
\* not exist it is created from the template, the new row its only Active row.
C19_SectionCreated == [][SectionCreated]_vars

\* an invocation read an index without an Active section and has written it
C19_Witness ==
    \E p \in Procs :
        /\ proc[p].pc = "done" /\ proc[p].exit = "0" /\ ~proc[p].dry_run
        /\ proc[p].seen # NoFile /\ ~HasActiveHeading(proc[p].seen)
        /\ SubSeq(index, 1, Len(proc[p].seen)) = proc[p].seen
        /\ ActiveTableAt(TextLines(index)) # 0

\* the runs so far were sequential and none was a dry run
SequentialRuns ==
    /\ ~overlap
    /\ \A i \in 1..Len(handed) : ~handed[i].dry_run
    /\ \A p \in Procs : ~proc[p].dry_run

\* no invocation is under way
Quiet == \A p \in Procs : ~Running(p)

\* every identifier an item file was created for has exactly one row
OneRowPerItem ==
    (SequentialRuns /\ Quiet)
    => \A f \in hitl_dir : RowsFor(index, f.content.id) = 1

\* an insertion keeps every table line (header, separator, row) it found
TableLinesKept ==
    \A p \in Procs :
        (IndexWritten(p) /\ SequentialRuns /\ proc[p].seen # NoFile)
        => LET old == TextLines(proc[p].seen)
               new == TextLines(index')
           IN  \A i \in 1..Len(old) :
                   IsPipeLine(old[i]) => \E j \in 1..Len(new) : new[j] = old[i]

\* C20: after any sequence of sequential, non-dry-run create-hitl-item runs,
\* every HITL identifier has exactly one row in the index, and each insertion
\* leaves every row and every table delimiter line that was present (header,
\* separator, Active and Archived tables) unchanged.
C20_OneRowPerIdRowsKept == [][TableLinesKept /\ OneRowPerItem']_vars

--------------------------------------------------------------------------
(* Claims on row fields *)

WrittenRowHasFiveCells ==
    \A p \in Procs : IndexWritten(p) => Len(RowCells(NewRow(p))) = 5

\* C21: a row field value (category, summary, filepath) that contains the
\* table delimiter "|" is rejected or escaped before the row is written, so
\* that a written row always parses back into exactly five cells.
C21_RowParsesBack == [][WrittenRowHasFiveCells]_vars

--------------------------------------------------------------------------
(* manage-waivers.py: check-expired and list *)

ExpirationField == "**Expiration**:"

\* group(1) of re.search(r"\*\*Expiration\*\*:\s*(\d{4}-\d{2}-\d{2})", s):
\* the leftmost match, <<>> without one
IsDateAt(s, i) ==
    /\ i + 9 <= Len(s)
    /\ \A k \in {0, 1, 2, 3, 5, 6, 8, 9} : s[i + k] \in Digits
    /\ s[i + 4] = "-" /\ s[i + 7] = "-"

SkipWhitespace(s, i) ==
    LET stops == {j \in i..Len(s) : s[j] \notin Whitespace}
    IN  IF stops = {} THEN Len(s) + 1 ELSE Min(stops)

MatchExpiration(s) ==
    LET at == {k \in 1..Len(s) :
                  s[k] = ExpirationField /\ IsDateAt(s, SkipWhitespace(s, k + 1))}
    IN  IF at = {} THEN <<>>
        ELSE SubSeq(s, SkipWhitespace(s, Min(at) + 1),
                    SkipWhitespace(s, Min(at) + 1) + 9)

IsLeapYear(y) == (y % 4 = 0 /\ y % 100 # 0) \/ y % 400 = 0

DaysInMonth(y, m) ==
    IF m = 2 THEN (IF IsLeapYear(y) THEN 29 ELSE 28)
    ELSE IF m \in {4, 6, 9, 11} THEN 30 ELSE 31

ValueError == [year |-> 0, month |-> 0, day |-> 0]

\* datetime.strptime(text, "%Y-%m-%d").date(); ValueError when it raises
strptime(text) ==
    LET y == IntOf(SubSeq(text, 1, 4))
        m == IntOf(SubSeq(text, 6, 7))
        d == IntOf(SubSeq(text, 9, 10))
    IN  IF y >= 1 /\ m \in 1..12 /\ d >= 1 /\ d <= DaysInMonth(y, m)
        THEN [year |-> y, month |-> m, day |-> d]
        ELSE ValueError

\* date.__lt__
DateLess(a, b) ==
    \/ a.year < b.year
    \/ a.year = b.year /\ a.month < b.month
    \/ a.year = b.year /\ a.month = b.month /\ a.day < b.day

\* the files of the directory whose date text strptime refuses
UnparsedDates(dir) ==
    {f \in GlobWaivers(dir.files) :
        /\ MatchExpiration(f.content) # <<>>
        /\ strptime(MatchExpiration(f.content)) = ValueError}

\* a check that counts the reference date itself as expired
\* (C22 does not hold of it)
check_expired_on_or_before(dir, today) ==
    IF ~dir.exists THEN [raised |-> FALSE, files |-> {}]
    ELSE IF UnparsedDates(dir) # {} THEN [raised |-> TRUE, files |-> {}]
    ELSE [raised |-> FALSE,
          files |-> {f.name : f \in {g \in GlobWaivers(dir.files) :
                       /\ MatchExpiration(g.content) # <<>>
                       /\ ~DateLess(today, strptime(MatchExpiration(g.content)))}}]

\* check_expired_waivers: the names it returns, or that strptime raised
check_expired_waivers(dir, today) ==
    IF ~dir.exists THEN [raised |-> FALSE, files |-> {}]
    ELSE IF UnparsedDates(dir) # {} THEN [raised |-> TRUE, files |-> {}]
    ELSE [raised |-> FALSE,
          files |-> {f.name : f \in {g \in GlobWaivers(dir.files) :
                       /\ MatchExpiration(g.content) # <<>>
                       /\ DateLess(strptime(MatchExpiration(g.content)), today)}}]

\* list_active_waivers
list_active_waivers(dir, today) ==
    IF ~dir.exists THEN [raised |-> FALSE, files |-> {}]
    ELSE IF UnparsedDates(dir) # {} THEN [raised |-> TRUE, files |-> {}]
    ELSE [raised |-> FALSE,
          files |-> {f.name : f \in {g \in GlobWaivers(dir.files) :
                       /\ MatchExpiration(g.content) # <<>>
                       /\ ~DateLess(strptime(MatchExpiration(g.content)), today)}}]

\* "YYYY-MM-DD"
Pad(n, width) == [i \in 1..(width - Len(DigitsOf(n))) |-> "0"] \o DigitsOf(n)
DateText(y, m, d) == Pad(y, 4) \o <<"-">> \o Pad(m, 2) \o <<"-">> \o Pad(d, 2)

\* a waiver file as create_waiver lays it out, for an --expiration value
WaiverText(expiration) ==
    <<"# Waiver: policy", LF, LF, ExpirationField, " ">> \o expiration
      \o <<" ", " ", LF, "**Expiration Date**:", " ">> \o expiration \o <<LF>>

Expirations ==
    { DateText(2025, 1, 9), DateText(2025, 1, 10), DateText(2025, 1, 11),
      DateText(2024, 12, 31), DateText(2025, 2, 30), <<"soon">> }

\* .repo/waivers for check-expired and list: one or two waiver files
DatedWaiverDirs ==
    { [exists |-> FALSE, files |-> {}], [exists |-> TRUE, files |-> {}] }
    \cup { [exists |-> TRUE,
            files |-> {[name |-> Waiver(1, 4) \o <<DotMd>>,
                        content |-> WaiverText(e)]}] : e \in Expirations }
    \cup { [exists |-> TRUE,
            files |-> {[name |-> Waiver(1, 4) \o <<DotMd>>,
                        content |-> WaiverText(e1)],
                       [name |-> Waiver(2, 4) \o <<DotMd>>,
                        content |-> WaiverText(e2)]}] :
            e1 \in Expirations, e2 \in Expirations }

\* datetime.now().date()
Todays == { [year |-> 2025, month |-> 1, day |-> 10],
            [year |-> 2025, month |-> 2, day |-> 1] }

--------------------------------------------------------------------------
(* sync-hitl-to-pr.py *)

\* s.strip(), on a text
RECURSIVE StripText(_)
StripText(s) ==
    IF s = <<>> THEN s
    ELSE IF s[1] \in Whitespace THEN StripText(Tail(s))
    ELSE IF s[Len(s)] \in Whitespace THEN StripText(SubSeq(s, 1, Len(s) - 1))
    ELSE s

\* where the leftmost match of the table pattern of parse_hitl_table starts
\* (it wants one row at least), 0 without a match
SearchActiveRows(s) ==
    LET at == {i \in 1..Len(s) :
                  /\ HeaderEnd(s, i) # 0
                  /\ RowsEnd(s, HeaderEnd(s, i) + 1) > HeaderEnd(s, i)}
    IN  IF at = {} THEN 0 ELSE Min(at)

\* lines 50-58, for one row
ItemOf(row) ==
    LET cells == [k \in 1..Len(RowCells(row)) |-> StripText(RowCells(row)[k])]
    IN  [id |-> cells[1], category |-> cells[2], status |-> cells[3],
         summary |-> cells[4],
         filepath |-> IF Len(cells) > 4 THEN cells[5] ELSE <<>>]

\* parse_hitl_table(content, "Active")
parse_hitl_table(content) ==
    LET i == SearchActiveRows(content)
        h == HeaderEnd(content, i)
        rows == SplitOn(StripText(SubSeq(content, h + 1, RowsEnd(content, h + 1))),
                        LF)
        kept == SelectSeq(rows, LAMBDA row :
                    /\ StripText(row) # <<>>
                    /\ StripText(row)[1] = "|"
                    /\ Len(RowCells(row)) >= 4)
    IN  IF i = 0 THEN <<>> ELSE [k \in 1..Len(kept) |-> ItemOf(kept[k])]

HitlItemsHeading == "## HITL Items"

\* status_emoji: the character of a status, "?" for any other text
StatusEmoji(status) ==
    IF status = <<"Pending">> THEN "(hourglass)"
    ELSE IF status = <<"In Progress">> THEN "(arrows)"
    ELSE IF status = <<"Blocked">> THEN "(no entry)"
    ELSE IF status = <<"Completed">> THEN "(check mark)"
    ELSE IF status = <<"Superseded">> THEN "(return arrow)"
    ELSE "(question mark)"

SectionRow(item) ==
    <<"|", " ">> \o item.id \o <<" ", "|", " ">> \o item.category
      \o <<" ", "|", " ", StatusEmoji(item.status), " ">> \o item.status
      \o <<" ", "|", " ">> \o item.summary \o <<" ", "|">>

RECURSIVE SectionRows(_)
SectionRows(items) ==
    IF items = <<>> THEN <<>>
    ELSE <<LF>> \o SectionRow(items[1]) \o SectionRows(Tail(items))

\* format_hitl_section
format_hitl_section(items) ==
    IF items = <<>>
    THEN <<HitlItemsHeading, LF, LF, "No active HITL items.", LF>>
    ELSE <<HitlItemsHeading, LF, LF,
           "|", " ", "ID", " ", "|", " ", "Category", " ", "|", " ", "Status",
           " ", "|", " ", "Summary", " ", "|", LF,
           "|", "---", "|", "---", "|", "---", "|", "---", "|">>
         \o SectionRows(items)

\* the tokens that are a second-level heading: "## " and a title
H2Headings == {HitlItemsHeading, "## Summary", "## Notes"}

\* (?=\n## |$) at position p of s
SectionStops(s, p) ==
    \/ p = Len(s) + 1
    \/ p = Len(s) /\ s[p] = LF
    \/ p < Len(s) /\ s[p] = LF /\ s[p + 1] \in H2Headings

\* r"## HITL Items\n.*?(?=\n## |$)" at position i: the position after the
\* match, 0 without a match
HitlSectionEnd(s, i) ==
    IF i + 1 > Len(s) THEN 0
    ELSE IF s[i] # HitlItemsHeading \/ s[i + 1] # LF THEN 0
    ELSE Min({p \in (i + 2)..(Len(s) + 1) : SectionStops(s, p)})

SearchHitlSection(s, from) ==
    LET at == {i \in from..Len(s) : HitlSectionEnd(s, i) # 0}
    IN  IF at = {} THEN 0 ELSE Min(at)

\* re.sub(hitl_pattern, hitl_section, s, flags=re.DOTALL), from position from
RECURSIVE SubHitlSection(_, _, _)
SubHitlSection(s, section, from) ==
    LET i == SearchHitlSection(s, from)
    IN  IF i = 0 THEN SubSeq(s, from, Len(s))
        ELSE SubSeq(s, from, i - 1) \o section
             \o SubHitlSection(s, section, HitlSectionEnd(s, i))

\* pr_data.get("body", "") when the remote answers "body": null
NullBody == <<"None">>

\* lines 119-126: new_body, or the exception that ends the process
\* (TypeError of re.search on None, re.error of re.sub on a bad escape)
new_body(current_body, hitl_section) ==
    IF current_body = NullBody THEN [raised |-> TRUE, body |-> current_body]
    ELSE IF SearchHitlSection(current_body, 1) # 0
    THEN IF \E k \in 1..Len(hitl_section) : hitl_section[k] = BadEscape
         THEN [raised |-> TRUE, body |-> current_body]
         ELSE [raised |-> FALSE,
               body |-> SubHitlSection(current_body, hitl_section, 1)]
    ELSE [raised |-> FALSE,
          body |-> IF current_body # <<>>
                   THEN current_body \o <<LF, LF>> \o hitl_section
                   ELSE hitl_section]

--------------------------------------------------------------------------
(* Runs of sync-hitl-to-pr.py, create-agent-log.py and of manage-waivers.py *)
(* check-expired and list, one at a time                                    *)

\* the index file sync-hitl-to-pr.py reads
SyncDocs ==
    { NoFile,
      <<"# HITL", LF>>,
      <<ActiveHeading, LF>> \o TableHeader \o <<LF>> \o TableSeparator \o <<LF>>,
      <<ActiveHeading, LF>> \o TableHeader \o <<LF>> \o TableSeparator
        \o <<LF>> \o OldRow(1) \o <<LF>> \o OldRow(3) \o <<LF>>,
      <<ActiveHeading, LF>> \o TableHeader \o <<LF>> \o TableSeparator
        \o <<LF>>
        \o IndexRow(Hitl(2, 4), "Risk", <<"C:", BadEscape, "ir">>,
                    ItemPath(Hitl(2, 4))) \o <<LF>> }

\* the body of the pull request at the remote
PrBodies ==
    { NullBody, <<>>, <<"Fix", LF>>,
      <<"Fix", LF, LF>> \o format_hitl_section(<<>>),
      <<"Fix", LF, LF, HitlItemsHeading, LF, "old", LF, LF, "## Notes", LF, "n">>,
      <<HitlItemsHeading, LF, "old">> }

\* requests: whether "import requests" succeeds (the flags are not read
\* when it fails); repo: owner and name given, or what git answers
SyncArgs ==
    { [NoRunArgs EXCEPT !.tool = "sync-hitl-to-pr", !.dry_run = d,
                        !.pr_number = n, !.token = t, !.repo = r] :
        d \in BOOLEAN, n \in BOOLEAN, t \in BOOLEAN,
        r \in {"given", "nomatch", "nogit"} }
    \cup { [NoRunArgs EXCEPT !.tool = "sync-hitl-to-pr", !.requests = FALSE] }

WaiverArgs ==
    { [NoRunArgs EXCEPT !.tool = c] : c \in {"check-expired", "list"} }

\* mode: which flags of create-agent-log.py are given: the three of a new
\* log; --log-file alone, with a complete or incomplete --add-action, with
\* --add-evidence; none
LogArgs ==
    { [NoRunArgs EXCEPT !.tool = "create-agent-log", !.dry_run = d, !.mode = m] :
        d \in BOOLEAN,
        m \in {"create", "log-file", "add-action", "add-action-incomplete",
               "add-evidence", "none"} }

\* sequential invocations per behaviour
MaxInvocations == 2

XInit ==
    /\ fs = [f \in Files |-> Absent]
    /\ args = NoArgs
    /\ pc = "idle"
    /\ loc = NoLoc
    /\ exit = "none"
    /\ out = <<>>
    /\ pre = fs
    /\ prev = [op |-> "none", task_id |-> <<>>, src |-> "", dst |-> "", pre |-> fs]
    /\ runs = 0
    /\ archive_dir = FALSE
    /\ hitl_dir = {}
    /\ proc = [p \in Procs |-> NoProc]
    /\ handed = <<>>
    /\ overlap = FALSE
    /\ xrun = NoRun
    /\ logs = {}
    /\ rproc = [p \in Procs |-> NoRacer]
    /\ \/ /\ waivers \in DatedWaiverDirs
          /\ index = NoFile
          /\ pr = <<>>
       \/ /\ waivers = [exists |-> FALSE, files |-> {}]
          /\ index \in SyncDocs
          /\ pr \in PrBodies

\* a process starts: the flags are parsed, nothing is read yet
XStart(a) ==
    /\ xrun.pc \in {"idle", "done"}
    /\ xrun.runs < MaxInvocations
    /\ xrun' = [NoRun EXCEPT !.tool = a.tool, !.a = a, !.pc = "main",
                             !.runs = xrun.runs + 1]
    /\ UNCHANGED <<pr, logs, index, waivers, hitl_dir, proc, handed, overlap, rproc, tvars>>

\* sys.exit(code) after printing msgs, or an uncaught exception (code 1)
XFinish(code, msgs) ==
    xrun' = [xrun EXCEPT !.pc = "done", !.exit = code, !.out = xrun.out \o msgs]

\* manage-waivers.py main, lines 220-242
WX_Main(today) ==
    /\ xrun.pc = "main" /\ xrun.tool \in {"check-expired", "list"}
    /\ LET r == IF xrun.tool = "check-expired"
                THEN check_expired_waivers(waivers, today)
                ELSE list_active_waivers(waivers, today)
           code == IF r.raised \/ (xrun.tool = "check-expired" /\ r.files # {})
                   THEN "1" ELSE "0"
           msg == IF r.raised THEN "Traceback"
                  ELSE IF xrun.tool = "check-expired"
                  THEN (IF r.files # {} THEN "FoundExpired" ELSE "NoExpired")
                  ELSE (IF r.files # {} THEN "ActiveWaivers" ELSE "NoActive")
       IN  xrun' = [xrun EXCEPT !.pc = "done", !.exit = code,
                                !.out = <<msg>>, !.reported = r.files,
                                !.today = today]
    /\ UNCHANGED <<pr, logs, index, waivers, hitl_dir, proc, handed, overlap, rproc, tvars>>

\* sync-hitl-to-pr.py, lines 26-30 and main 144-246 up to the call of
\* update_pr_description.  readable: hitl_path.read_text succeeds
SY_Main(readable) ==
    /\ xrun.pc = "main" /\ xrun.tool = "sync-hitl-to-pr"
    /\ LET a == xrun.a
           dry_run == a.dry_run \/ ~a.token
           warning == IF ~a.token /\ ~a.dry_run THEN <<"TokenNotFound">> ELSE <<>>
           section == format_hitl_section(parse_hitl_table(index))
       IN  IF ~a.requests THEN XFinish("1", <<"RequestsRequired">>)
           ELSE IF ~a.pr_number /\ ~a.dry_run
           THEN XFinish("1", <<"PRNumberRequired">>)
           ELSE IF index = NoFile
           THEN XFinish("1", warning \o <<"HitlFileNotFound">>)
           ELSE IF ~readable THEN XFinish("1", warning \o <<"Traceback">>)
           ELSE IF ~dry_run /\ a.token /\ a.pr_number
           THEN IF a.repo = "nomatch"
                THEN XFinish("1", <<"CouldNotDetectFromRemote">>)
                ELSE IF a.repo = "nogit"
                THEN XFinish("1", <<"CouldNotDetectRepository">>)
                ELSE xrun' = [xrun EXCEPT !.pc = "get", !.section = section]
           ELSE xrun' = [xrun EXCEPT !.pc = "done", !.exit = "0",
                                     !.section = section,
                                     !.out = warning \o
                                       <<IF dry_run THEN "DryRunSection"
                                         ELSE "Section">>]
    /\ UNCHANGED <<pr, logs, index, waivers, hitl_dir, proc, handed, overlap, rproc, tvars>>

\* a GET that is sent once more when the first one fails (C25 does not
\* hold of it)
SY_Get_retrying(ok) ==
    /\ xrun.pc = "get"
    /\ LET r == new_body(pr, xrun.section)
       IN  IF ~ok
           THEN xrun' = [xrun EXCEPT
                           !.pc = IF xrun.gets = 0 THEN "get" ELSE "done",
                           !.exit = IF xrun.gets = 0 THEN "none" ELSE "1",
                           !.gets = xrun.gets + 1,
                           !.answers = Append(xrun.answers, ok),
                           !.out = xrun.out \o <<"ErrorUpdatingPR">>]
           ELSE IF r.raised
           THEN xrun' = [xrun EXCEPT !.pc = "done", !.exit = "1",
                                     !.gets = xrun.gets + 1,
                                     !.answers = Append(xrun.answers, ok),
                                     !.out = xrun.out \o <<"Traceback">>]
           ELSE xrun' = [xrun EXCEPT !.pc = "patch", !.gets = xrun.gets + 1,
                                     !.answers = Append(xrun.answers, ok),
                                     !.body = r.body]
    /\ UNCHANGED <<pr, logs, index, waivers, hitl_dir, proc, handed, overlap, rproc, tvars>>

\* update_pr_description, lines 115-126: requests.get, raise_for_status,
\* json, then new_body.  ok: the request succeeds; the answers are kept
SY_Get(ok) ==
    /\ xrun.pc = "get"
    /\ LET r == new_body(pr, xrun.section)
       IN  IF ~ok
           THEN xrun' = [xrun EXCEPT !.pc = "done", !.exit = "1",
                                     !.gets = xrun.gets + 1,
                                     !.answers = Append(xrun.answers, ok),
                                     !.out = xrun.out \o <<"ErrorUpdatingPR">>]
           ELSE IF r.raised
           THEN xrun' = [xrun EXCEPT !.pc = "done", !.exit = "1",
                                     !.gets = xrun.gets + 1,
                                     !.answers = Append(xrun.answers, ok),
                                     !.out = xrun.out \o <<"Traceback">>]
           ELSE xrun' = [xrun EXCEPT !.pc = "patch", !.gets = xrun.gets + 1,
                                     !.answers = Append(xrun.answers, ok),
                                     !.body = r.body]
    /\ UNCHANGED <<pr, logs, index, waivers, hitl_dir, proc, handed, overlap, rproc, tvars>>

\* update_pr_description, lines 129-141, then main 237-246
SY_Patch(ok) ==
    /\ xrun.pc = "patch"
    /\ IF ok
       THEN /\ pr' = xrun.body
            /\ xrun' = [xrun EXCEPT !.pc = "done", !.exit = "0",
                                    !.patches = xrun.patches + 1,
                                    !.answers = Append(xrun.answers, ok),
                                    !.out = xrun.out \o <<"Updated">>]
       ELSE /\ xrun' = [xrun EXCEPT !.pc = "done", !.exit = "1",
                                    !.patches = xrun.patches + 1,
                                    !.answers = Append(xrun.answers, ok),
                                    !.out = xrun.out \o <<"ErrorUpdatingPR">>]
            /\ UNCHANGED pr
    /\ UNCHANGED <<logs, index, waivers, hitl_dir, proc, handed, overlap, rproc, tvars>>


\* create-agent-log.py: the log files of .repo/logs; a log is named after
\* the task and the second it was created in
LogNames == 1..2
NewLog(n, now) == [name |-> n, actions |-> 0, evidence |-> 0, updated |-> now]

\* save_log, lines 77-81
save_log(log) == logs' = {l \in logs : l.name # log.name} \cup {log}

\* create-agent-log.py main, lines 124-221.  now: the clock; target: the
\* file --log-file names
AL_Main(now, target) ==
    /\ xrun.pc = "main" /\ xrun.tool = "create-agent-log"
    /\ LET a == xrun.a
           found == {l \in logs : l.name = target}
           log == CHOOSE l \in found : TRUE
       IN  IF a.mode = "create"
           THEN IF a.dry_run
                THEN XFinish("0", <<"WouldCreateLog">>) /\ UNCHANGED logs
                ELSE save_log(NewLog(now, now)) /\ XFinish("0", <<"CreatedLog">>)
           ELSE IF a.mode = "none"
           THEN XFinish("1", <<"Help">>) /\ UNCHANGED logs
           ELSE IF found = {}
           THEN XFinish("1", <<"LogFileNotFound">>) /\ UNCHANGED logs
           ELSE IF a.mode = "add-action-incomplete"
           THEN XFinish("1", <<"FilepathAndReasoningRequired">>) /\ UNCHANGED logs
           ELSE IF a.mode = "log-file"
           THEN XFinish("0", <<>>) /\ UNCHANGED logs
           ELSE IF a.dry_run
           THEN XFinish("0", <<"WouldAdd">>) /\ UNCHANGED logs
           ELSE IF a.mode = "add-action"
           THEN /\ save_log([log EXCEPT !.actions = @ + 1, !.updated = now])
                /\ XFinish("0", <<"AddedAction">>)
           ELSE /\ save_log([log EXCEPT !.evidence = @ + 1, !.updated = now])
                /\ XFinish("0", <<"AddedEvidence">>)
    /\ UNCHANGED <<pr, index, waivers, hitl_dir, proc, handed, overlap, rproc, tvars>>

XNext ==
    \/ \E a \in SyncArgs \cup WaiverArgs \cup LogArgs : XStart(a)
    \/ \E today \in Todays : WX_Main(today)
    \/ \E readable \in BOOLEAN : SY_Main(readable)
    \/ \E ok \in BOOLEAN : SY_Get(ok)
    \/ \E ok \in BOOLEAN : SY_Patch(ok)
    \/ \E now \in LogNames, target \in LogNames : AL_Main(now, target)

XSpec == XInit /\ [][XNext]_vars

--------------------------------------------------------------------------
(* Claims on waiver expiry                                                  *)

\* the calendar date a waiver file was created with, if it has one
CalendarDates ==
    { d \in [year : {2024, 2025}, month : 1..12, day : 1..31] :
        d.day <= DaysInMonth(d.year, d.month) }
HasDate(f) ==
    \E d \in CalendarDates : f.content = WaiverText(DateText(d.year, d.month, d.day))
DateOf(f) ==
    CHOOSE d \in CalendarDates : f.content = WaiverText(DateText(d.year, d.month, d.day))
\* days are ordered as their year, month, day triples
Ordinal(d) == d.year * 372 + d.month * 31 + d.day

Completed(tool) ==
    xrun.pc = "done" /\ xrun.tool = tool /\ xrun.out # <<"Traceback">>

ExpiredBefore(today) ==
    {f.name : f \in {g \in waivers.files :
                        HasDate(g) /\ Ordinal(DateOf(g)) < Ordinal(today)}}
ActiveOn(today) ==
    {f.name : f \in {g \in waivers.files :
                        HasDate(g) /\ Ordinal(DateOf(g)) >= Ordinal(today)}}

\* C22: a completed check-expired reports exactly the waivers whose
\* expiration date is before the reference date, and a completed list
\* exactly those whose expiration date is on or after it; a waiver expiring
\* on the reference date is active
C22_StrictLessThan ==
    /\ Completed("check-expired") => xrun.reported = ExpiredBefore(xrun.today)
    /\ Completed("list") => xrun.reported = ActiveOn(xrun.today)

\* check-expired ran over a waiver expiring on the reference date and one
\* that expired the day before: only the latter was reported
C22_Witness ==
    /\ Completed("check-expired")
    /\ \E f \in waivers.files, g \in waivers.files :
          /\ HasDate(f) /\ DateOf(f) = xrun.today /\ f.name \notin xrun.reported
          /\ HasDate(g) /\ Ordinal(DateOf(g)) = Ordinal(xrun.today) - 1
          /\ g.name \in xrun.reported

--------------------------------------------------------------------------
(* Claims on dry runs                                                       *)

\* a step of a dry-run invocation of a task tool, of create-agent-log.py
\* or sync-hitl-to-pr.py, or taken while only dry-run creators are running
DryRunTaskStep == args.dry_run /\ pc \notin {"idle", "done"}
DryRunCreateStep ==
    /\ \E p \in Procs : Running(p)
    /\ \A p \in Procs : Running(p) => proc[p].dry_run
DryRunOtherStep == xrun.a.dry_run /\ xrun.pc \notin {"idle", "done"}

\* C23: no step of a dry-run invocation changes a file, a directory or the
\* body of the pull request, and no dry run ends on a write error
C23_DryRunWritesNothing ==
    [][ /\ DryRunTaskStep =>
              /\ fs' = fs /\ archive_dir' = archive_dir
              /\ \A k \in 1..Len(out') : out'[k].tag # "ErrorArchiving"
        /\ DryRunCreateStep =>
              index' = index /\ hitl_dir' = hitl_dir /\ waivers' = waivers
        /\ DryRunOtherStep => pr' = pr /\ logs' = logs ]_vars

--------------------------------------------------------------------------
(* Two invocations of archive-task.py and promote-task.py at the same time: *)
(* every read_text and every write_text is a step of its own; no dry run,   *)
(* no call fails                                                            *)

\* --todo-file of promote-task.py: its default, or a file archive-task.py
\* searches
RaceArgs ==
    { [NoRacer EXCEPT !.tool = "archive-task", !.task_id = id] : id \in TaskIds }
    \cup { [NoRacer EXCEPT !.tool = "promote-task", !.task_id = id,
                           !.todo_file = f] :
             id \in TaskIds, f \in {F_TODO, F_P0} }

RInit ==
    /\ \E b \in BacklogDocs, t \in TodoDocs, p0 \in P0Docs :
          /\ b # Absent /\ validate_task_format(
                             PT_find_task_in_file(b, TASK1).task_lines) = <<>>
          /\ PT_task_count(t) < 5
          /\ fs = [f \in Files |->
                     IF f = F_BACKLOG THEN b ELSE IF f = F_TODO THEN t
                     ELSE IF f = F_P0 THEN p0 ELSE Absent]
    /\ args = NoArgs
    /\ pc = "idle"
    /\ loc = NoLoc
    /\ exit = "none"
    /\ out = <<>>
    /\ pre = fs
    /\ prev = [op |-> "none", task_id |-> <<>>, src |-> "", dst |-> "", pre |-> fs]
    /\ runs = 0
    /\ archive_dir = FALSE
    /\ NoHitlNoWaivers
    /\ xrun = NoRun /\ pr = NoFile /\ logs = {}
    /\ rproc \in [Procs -> {[a EXCEPT !.pc = "find"] : a \in RaceArgs}]

\* main of either tool up to its first call that writes: archive-task.py
\* 166-222 (status "completed"), promote-task.py 125-174 (the prompt,
\* when it is shown, is answered "y")
R_Find(p) ==
    /\ rproc[p].pc = "find"
    /\ LET me == rproc[p]
           k == AT_search(1, me.task_id, "None")
           f == todo_files[k]
           a == AT_find_task_in_file(fs[f], me.task_id)
           r == PT_find_task_in_file(fs[F_BACKLOG], me.task_id)
       IN  IF me.tool = "archive-task"
           THEN IF k = 0
                THEN rproc' = [rproc EXCEPT ![p].pc = "done", ![p].exit = "1"]
                ELSE rproc' = [rproc EXCEPT
                                 ![p].pc = "mark_read", ![p].task_file = f,
                                 ![p].task_start = a.task_start,
                                 ![p].task_lines =
                                   AT_main_task_lines(fs[f], a.task_start)]
           ELSE IF ~Exists(F_BACKLOG) \/ ~r.found
                   \/ validate_task_format(r.task_lines) # <<>>
                THEN rproc' = [rproc EXCEPT ![p].pc = "done", ![p].exit = "1"]
                ELSE rproc' = [rproc EXCEPT
                                 ![p].pc = "remove_read",
                                 ![p].task_file = F_BACKLOG,
                                 ![p].task_start = r.task_start,
                                 ![p].task_lines = r.task_lines]
    /\ UNCHANGED <<xrun, pr, logs, hvars, tvars>>

\* the file the step at pc reads and writes
Target(me) ==
    CASE me.pc \in {"mark_read", "mark_write"} -> me.task_file
      [] me.pc \in {"archive_read", "archive_write"} -> F_ARCHIVE
      [] me.pc \in {"remove_read", "remove_write"} -> F_BACKLOG
      [] me.pc \in {"add_read", "add_write"} -> me.todo_file

\* read_text of mark_task_completed (archive-task.py:48), archive_task (90),
\* remove_task_from_file (promote-task.py:73), add_task_to_file (97);
\* archive_task has made the directory before (archive-task.py:79)
R_Read(p) ==
    /\ rproc[p].pc \in {"mark_read", "archive_read", "remove_read", "add_read"}
    /\ LET me == rproc[p]
       IN  rproc' = [rproc EXCEPT
                       ![p].seen = fs[Target(me)],
                       ![p].pc = CASE me.pc = "mark_read" -> "mark_write"
                                   [] me.pc = "archive_read" -> "archive_write"
                                   [] me.pc = "remove_read" -> "remove_write"
                                   [] me.pc = "add_read" -> "add_write"]
    /\ archive_dir' = (archive_dir \/ rproc[p].pc = "archive_read")
    /\ UNCHANGED <<fs, args, pc, loc, exit, out, pre, prev, runs,
                   xrun, pr, logs, hvars>>

\* what the step at pc writes, from what the process has read: the content,
\* or that it writes nothing (mark_task_completed without a line to update)
NewContent(me) ==
    CASE me.pc = "mark_write" ->
           LET m == mark_task_completed(me.seen, me.task_id)
           IN  [writes |-> m.updated, lines |-> Written(m.lines)]
      [] me.pc = "archive_write" ->
           [writes |-> TRUE,
            lines |-> archive_task(me.seen, me.task_id, me.task_lines)]
      [] me.pc = "remove_write" ->
           [writes |-> TRUE,
            lines |-> Written(remove_task_from_file(
                                me.seen, me.task_start, me.task_lines))]
      [] me.pc = "add_write" ->
           [writes |-> TRUE, lines |-> add_task_to_file(me.seen, me.task_lines)]

\* a write that compares the file with what was read and gives up when it
\* has changed (C24 does not hold of it)
R_Write_checking(p) ==
    /\ rproc[p].pc \in {"mark_write", "archive_write", "remove_write", "add_write"}
    /\ LET me == rproc[p]
           f == Target(me)
           new == NewContent(me)
       IN  IF fs[f] # me.seen
           THEN /\ rproc' = [rproc EXCEPT ![p].pc = "done", ![p].exit = "1"]
                /\ UNCHANGED fs
           ELSE /\ fs' = IF new.writes THEN [fs EXCEPT ![f] = new.lines] ELSE fs
                /\ rproc' = [rproc EXCEPT
                       ![p].marked = (me.marked
                                        \/ (me.pc = "mark_write" /\ new.writes)),
                       ![p].pc = CASE me.pc = "mark_write" -> "archive_read"
                                   [] me.pc = "remove_write" -> "add_read"
                                   [] OTHER -> "done",
                       ![p].exit = IF me.pc \in {"archive_write", "add_write"}
                                   THEN "0" ELSE me.exit]
    /\ UNCHANGED <<args, pc, loc, exit, out, pre, prev, runs, archive_dir,
                   xrun, pr, logs, hvars>>

\* write_text of mark_task_completed (archive-task.py:64), archive_task
\* (91), remove_task_from_file (promote-task.py:81), add_task_to_file
\* (114), and what main does next
R_Write(p) ==
    /\ rproc[p].pc \in {"mark_write", "archive_write", "remove_write", "add_write"}
    /\ LET me == rproc[p]
           f == Target(me)
           new == NewContent(me)
       IN  /\ fs' = IF new.writes THEN [fs EXCEPT ![f] = new.lines] ELSE fs
           /\ rproc' = [rproc EXCEPT
                  ![p].marked = (me.marked
                                   \/ (me.pc = "mark_write" /\ new.writes)),
                  ![p].stale = (me.stale \/ (new.writes /\ fs[f] # me.seen)),
                  ![p].pc = CASE me.pc = "mark_write" -> "archive_read"
                              [] me.pc = "remove_write" -> "add_read"
                              [] OTHER -> "done",
                  ![p].exit = IF me.pc \in {"archive_write", "add_write"}
                              THEN "0" ELSE me.exit]
    /\ UNCHANGED <<args, pc, loc, exit, out, pre, prev, runs, archive_dir,
                   xrun, pr, logs, hvars>>

RNext ==
    \/ \E p \in Procs : R_Find(p)
    \/ \E p \in Procs : R_Read(p)
    \/ \E p \in Procs : R_Write(p)

RSpec == RInit /\ [][RNext]_vars

--------------------------------------------------------------------------
(* Claims on concurrent invocations                                         *)

Lines(content) == {content[i] : i \in 1..Len(content)}

WritePcs == {"mark_write", "archive_write", "remove_write", "add_write"}
WriteStep(p) == rproc[p].pc \in WritePcs /\ rproc'[p].pc # rproc[p].pc

\* the lines a step adds to what it has read
OwnLines(me) ==
    CASE me.pc = "mark_write" ->
           {Replace(l, Unchecked, Checked) : l \in Lines(me.seen)}
      [] me.pc = "archive_write" ->
           Lines(AT_archive_entry(me.task_id, me.task_lines))
      [] me.pc = "remove_write" -> {<<>>}
      [] me.pc = "add_write" -> Lines(me.task_lines) \cup {<<>>, ActiveTasks}

\* a sequence without its elements at the 0-based positions from..from+n-1
Without(seq, from, n) ==
    LET keep == {i \in 1..Len(seq) : i <= from \/ i > from + n}
        nth(k) == CHOOSE i \in keep : Cardinality({j \in keep : j < i}) = k - 1
    IN  [k \in 1..Cardinality(keep) |-> seq[nth(k)]]

\* C24: a write step made after the file has changed since the process read
\* it is not detected (the process does not fail); what the step leaves in
\* the file is made of the lines the process read and its own, so the other
\* writer's change is gone; and the excision of promote-task.py removes the
\* positions found by the first read from the lines of the second
C24_LastWriterWins ==
    [][\A p \in Procs :
         WriteStep(p) =>
           LET me == rproc[p]
               f == Target(me)
           IN  /\ fs[f] # me.seen => rproc'[p].exit # "1"
               /\ \/ fs'[f] = fs[f] /\ me.pc = "mark_write"
                  \/ Lines(fs'[f]) \subseteq Lines(me.seen) \cup OwnLines(me)
               /\ me.pc = "remove_write" =>
                    LET rest == Without(me.seen, me.task_start, Len(me.task_lines))
                    IN  fs'[f] = IF rest = <<>> THEN << <<>> >> ELSE rest
      ]_vars

\* two archive runs exited 0 after marking their tasks in the same file;
\* the second write was made over a changed file and the first task's
\* line is unchecked again
C24_Witness ==
    \E p \in Procs, q \in Procs :
        /\ p # q
        /\ rproc[p].pc = "done" /\ rproc[p].exit = "0" /\ rproc[p].marked
        /\ rproc[q].pc = "done" /\ rproc[q].exit = "0" /\ rproc[q].stale
        /\ rproc[q].task_file = rproc[p].task_file
        /\ \E l \in Lines(fs[rproc[p].task_file]) :
              /\ Contains(rproc[p].task_id, l)
              /\ StartsWith(l, Unchecked)

--------------------------------------------------------------------------
(* Claims on the requests of sync-hitl-to-pr.py                             *)

Failed == \E k \in 1..Len(xrun.answers) : ~xrun.answers[k]

\* C25: an invocation sends at most one GET and at most one PATCH, the
\* PATCH only after a GET that succeeded; a request that fails is the last
\* one sent, it is reported, and the invocation exits 1
C25_OneGetOnePatch ==
    /\ xrun.gets <= 1 /\ xrun.patches <= 1
    /\ Len(xrun.answers) = xrun.gets + xrun.patches
    /\ xrun.patches = 1 => xrun.gets = 1 /\ xrun.answers[1]
    /\ Failed =>
         /\ ~xrun.answers[Len(xrun.answers)]
         /\ \A k \in 1..(Len(xrun.answers) - 1) : xrun.answers[k]
         /\ xrun.pc = "done" /\ xrun.exit = "1"
         /\ xrun.out[Len(xrun.out)] = "ErrorUpdatingPR"
    /\ xrun.pc = "done" /\ xrun.exit = "0" /\ xrun.gets = 1 =>
         xrun.patches = 1 /\ pr = xrun.body

\* the GET succeeded, the PATCH failed: exit 1, the body is not changed
C25_Witness ==
    /\ xrun.tool = "sync-hitl-to-pr" /\ xrun.pc = "done" /\ xrun.exit = "1"
    /\ xrun.answers = <<TRUE, FALSE>>
    /\ pr # xrun.body

--------------------------------------------------------------------------
(* Claims on exit codes                                                     *)

\* the messages that report a step that failed
FailureTags ==
    {"Traceback", "BacklogFileNotFound", "TaskNotFound", "ErrorReading",
     "ValidationFailed", "ErrorUpdating", "CouldNotMark", "ErrorArchiving",
     "ErrorPromoting", "SourceFileNotFound", "TargetFileNotFound",
     "TaskNotFoundInSource"}

\* C26: an invocation of archive-task.py or promote-task.py that exits 0
\* has reported no failed step
C26_ExitZeroOnlyOnSuccess ==
    pc = "done" /\ exit = "0" =>
        \A k \in 1..Len(out) : out[k].tag \notin FailureTags

--------------------------------------------------------------------------
(* Claims on the lines a Move leaves alone                                  *)

\* the lines of a occur in b, in the same order
RECURSIVE IsSubsequence(_, _)
IsSubsequence(a, b) ==
    IF a = <<>> THEN TRUE
    ELSE IF b = <<>> THEN FALSE
    ELSE IF Head(a) = Head(b) THEN IsSubsequence(Tail(a), Tail(b))
    ELSE IsSubsequence(a, Tail(b))

\* the lines of doc that are not lines of the record of id
OtherLines(doc, id) ==
    LET i == Min(RecordStarts(doc, id))
    IN  SubSeq(doc, 1, i - 1) \o SubSeq(doc, RecordEnd(doc, i), Len(doc))

MovedARecord ==
    /\ MoveSucceeded
    /\ MoveSource # MoveTarget
    /\ RecordStarts(pre[MoveSource], args.task_id) # {}

\* C27: after a promotion that reports success, every line of the source
\* that is not a line of the moved record is still in the source, in the
\* same order, and every line the target had is still in the target, in
\* the same order
C27_OtherLinesKept ==
    MovedARecord
    => /\ IsSubsequence(OtherLines(pre[MoveSource], args.task_id), fs[MoveSource])
       /\ IsSubsequence(pre[MoveTarget], fs[MoveTarget])

--------------------------------------------------------------------------
(* Claims on the insertion point                                            *)

SectionHeadings(doc) == {i \in 1..Len(doc) : Strip(doc[i]) = ActiveTasks}
ClosesSection(line) ==
    StartsWith(line, TaskFormatTemplate) \/ StartsWith(line, Rule)
\* the 1-based lines at which lines stands in doc as a block
BlocksOf(doc, lines) ==
    {i \in 1..(Len(doc) - Len(lines) + 1) :
        SubSeq(doc, i, i + Len(lines) - 1) = lines}

PromotedIntoExisting ==
    /\ MoveSucceeded
    /\ args.tool = "promote-task"
    /\ pre[F_TODO] # Absent

\* C28: after a promotion by promote-task.py into an existing target, the
\* record stands after the heading line "## Active Tasks" with no
\* "## Task Format Template" or "---" line between the two when the
\* target had that heading, and at the end of the file when it had not
C28_InsertionPoint ==
    PromotedIntoExisting
    => LET doc == fs[F_TODO]
           rec == TrimBlank(loc.task_lines)
       IN  IF SectionHeadings(pre[F_TODO]) # {}
           THEN \E i \in BlocksOf(doc, rec) :
                   /\ SectionHeadings(doc) # {}
                   /\ Min(SectionHeadings(doc)) < i
                   /\ \A j \in (Min(SectionHeadings(doc)) + 1)..(i - 1) :
                         ~ClosesSection(doc[j])
           ELSE LET body == TrimBlank(doc)
                IN  /\ Len(body) >= Len(rec)
                    /\ SubSeq(body, Len(body) - Len(rec) + 1, Len(body)) = rec

--------------------------------------------------------------------------
(* Claims on duplicate and prefixed identifiers                             *)

\* archive-task.py marked the task in a document, and was no dry run
MarkedCompleted ==
    /\ Done /\ exit = "0" /\ ~args.dry_run
    /\ args.tool = "archive-task" /\ args.promote_from = "None"
    /\ Printed("Marked")

\* doc and was agree from 1-based line i on
SameFrom(doc, was, i) ==
    /\ Len(doc) = Len(was)
    /\ \A j \in i..Len(was) : doc[j] = was[j]

\* C29: when the document holds several record-start lines with the
\* identifier, marking the task completed changes no line after the first
\* of these records: the later duplicates are as they were
C29_FirstDuplicateOnly ==
    ( /\ MarkedCompleted
      /\ Cardinality(RecordStarts(pre[loc.task_file], args.task_id)) >= 2 )
    => LET was == pre[loc.task_file]
           first == Min(RecordStarts(was, args.task_id))
       IN  SameFrom(fs[loc.task_file], was, RecordEnd(was, first))


\* the lines of doc that start the record of an identifier that has id as a
\* proper prefix
PrefixedStarts(doc, id) ==
    {i \in 1..Len(doc) :
        /\ IsRecordStartLine(doc[i])
        /\ Len(OwnId(doc[i])) > Len(id)
        /\ SubSeq(OwnId(doc[i]), 1, Len(id)) = id}

\* C30: an invocation for identifier X selects no record whose identifier
\* has X as a proper prefix, and when it has ended every such record-start
\* line is in its document as often as before
C30_ExactIdentifier ==
    /\ (args.tool # "none" /\ loc.task_file # "")
         => (loc.task_start + 1)
              \notin PrefixedStarts(pre[loc.task_file], args.task_id)
    /\ (Done /\ args.tool # "none")
         => \A f \in Files : \A i \in PrefixedStarts(pre[f], args.task_id) :
               CountLine(fs[f], pre[f][i]) = CountLine(pre[f], pre[f][i])

--------------------------------------------------------------------------
(* Claims on the archive file                                               *)

\* an archive run with status "completed" that marked the record it located
ArchivedCompleted ==
    /\ ArchiveSucceeded
    /\ args.status = "completed"
    /\ Printed("Marked")
    /\ (loc.task_start + 1) \in RecordStarts(pre[loc.task_file], args.task_id)

\* the located lines as they stand in the TODO document
RecordNow ==
    SubSeq(fs[loc.task_file], loc.task_start + 1,
           loc.task_start + Len(loc.task_lines))

\* C31: after archive-task.py archived a task with status "completed", the
\* record in the archive file is the record as the TODO document holds it
\* at the end of the run, with the "- [x]" marker
C31_ArchivedCopyIsMarked ==
    ArchivedCompleted
    => /\ BlockCount(fs[F_ARCHIVE], RecordNow) >= 1
       /\ \E i \in 1..Len(fs[F_ARCHIVE]) :
             /\ Contains(args.task_id, fs[F_ARCHIVE][i])
             /\ StartsWith(fs[F_ARCHIVE][i], Checked)


\* the text of the dated archive file; no file: the empty text
ArchiveText(files) ==
    IF files[F_ARCHIVE] = Absent THEN <<>> ELSE Join(files[F_ARCHIVE])

\* the lines of the archive file that head the entry of a task
EntryHeadings(files, id) ==
    {i \in 1..Len(files[F_ARCHIVE]) :
        files[F_ARCHIVE][i]
          = <<"#", "#", " ">> \o id \o <<" ", "-", " ", "Archived", " ", Today>>}

\* this step appends one entry, that of the task of the invocation
AppendsOneEntry ==
    /\ Len(ArchiveText(fs')) > Len(ArchiveText(fs))
    /\ SubSeq(ArchiveText(fs'), 1, Len(ArchiveText(fs))) = ArchiveText(fs)
    /\ \A id \in TaskIds :
          Cardinality(EntryHeadings(fs', id))
            = Cardinality(EntryHeadings(fs, id))
                + (IF id = args.task_id THEN 1 ELSE 0)
    /\ \A i \in EntryHeadings(fs', args.task_id) \ EntryHeadings(fs, args.task_id) :
          i >= Len(fs[F_ARCHIVE])

ItemNames(dir) == {f.name : f \in dir}

\* a step of a run that overlaps no other run writes a file into the HITL
\* directory under a name that was not there
WritesNewItemFile ==
    (hitl_dir' # hitl_dir /\ ~overlap)
        => ItemNames(hitl_dir') # ItemNames(hitl_dir)

\* C33: create-hitl-item.py never overwrites an existing item file: the
\* file a run writes has a name no file of the HITL directory had, also
\* when the index is missing, lacks the row of that identifier, or an
\* earlier run stopped between writing the file and appending the row
C33_NeverOverwrites == [][WritesNewItemFile]_vars


\* the row of process p, as the five fields main passed to add_to_index
AppendedItem(p) ==
    [id |-> proc[p].id, category |-> <<"Risk">>, status |-> <<"Pending">>,
     summary |-> proc[p].summary, filepath |-> ItemPath(proc[p].id)]

\* no field of the row of process p holds a delimiter or a newline
DelimiterFree(p) ==
    \A k \in 1..Len(proc[p].summary) : proc[p].summary[k] \notin {"|", LF}

\* the rows parse_hitl_table finds in an index document
ParsedRows(content) ==
    IF content = NoFile THEN <<>> ELSE parse_hitl_table(content)

AppendedRowParsesBack ==
    \A p \in Procs :
        (IndexWritten(p) /\ DelimiterFree(p))
        => ParsedRows(index') = ParsedRows(proc[p].seen) \o <<AppendedItem(p)>>

\* C34: when add_to_index has appended a row whose field values hold no
\* delimiter and no newline, parse_hitl_table on the index returns the
\* rows it returned before, unchanged and in order, and then, as the last
\* item, a row whose id, category, status ("Pending"), summary and
\* filepath are the appended values
C34_AppendThenParse == [][AppendedRowParsesBack]_vars


(***************************************************************************)
(* Claims on the synced section and on the waiver reports                  *)
(***************************************************************************)

\* where the "## HITL Items" headings of a body are
SectionStartsIn(body) == {i \in 1..Len(body) : body[i] = HitlItemsHeading}

\* the text of a body before its first "## HITL Items" heading and the text
\* from the next second-level heading on, both without the white space
\* around them; a body without the heading is all before
OutsideSection(body) ==
    LET at == SectionStartsIn(body)
        h == IF at = {} THEN Len(body) + 1 ELSE Min(at)
        next == {p \in (h + 1)..Len(body) :
                    /\ p < Len(body)
                    /\ body[p] = LF
                    /\ body[p + 1] \in H2Headings}
        e == IF next = {} THEN Len(body) + 1 ELSE Min(next)
    IN  <<StripText(SubSeq(body, 1, h - 1)), StripText(SubSeq(body, e, Len(body)))>>

\* this step is the PATCH of a sync that succeeds
SyncPatched ==
    /\ xrun.tool = "sync-hitl-to-pr"
    /\ xrun.pc = "patch"
    /\ xrun'.pc = "done" /\ xrun'.exit = "0"

SyncIdempotentAndLocal ==
    SyncPatched
    => LET again == new_body(pr', xrun.section)
       IN  /\ ~again.raised
           /\ again.body = pr'
           /\ Cardinality(SectionStartsIn(pr')) = 1
           /\ OutsideSection(pr') = OutsideSection(pr)

\* C35: syncing the HITL section into a PR body is idempotent and local:
\* syncing the body a sync has written once more, with the same items
\* (none, or some), gives the same body; the body has exactly one
\* "## HITL Items" section afterwards; the text of the body outside that
\* section is what it was
C35_SyncIdempotentLocal == [][SyncIdempotentAndLocal]_vars


\* the names of the WAIVER-*.md files of the waivers directory
WaiverNames == {f.name : f \in GlobWaivers(waivers.files)}

\* C36: for the reference date of a run of check-expired or list,
\* check_expired_waivers and list_active_waivers partition the waiver
\* files: every WAIVER-*.md file of the directory is reported by exactly
\* one of the two, never by both and never by neither, also a file whose
\* Expiration field is missing or is no valid date
C36_ExpiredActivePartition ==
    (xrun.pc = "done" /\ xrun.tool \in {"check-expired", "list"})
    => LET expired == check_expired_waivers(waivers, xrun.today)
           active == list_active_waivers(waivers, xrun.today)
       IN  /\ ~expired.raised /\ ~active.raised
           /\ expired.files \cap active.files = {}
           /\ expired.files \cup active.files = WaiverNames
           /\ xrun.reported
                = IF xrun.tool = "check-expired" THEN expired.files
                  ELSE active.files

==========================================================================
